---- MODULE Spec2Model ----
(***************************************************************************)
(* A model of the Xiangqi engine: the board (board.rs), the move generator *)
(* (moves.rs), the evaluator (evaluation.rs), the text adapter (uci.rs)    *)
(* and the iterative-deepening driver (search.rs).                         *)
(*                                                                         *)
(* A square is a pair <<color, piece>>; the empty square (Rust's None) is  *)
(* NoPiece.  A position <<rank, file>> is 0-based as in the source.  A     *)
(* board is a record with the fields of struct Board.                      *)
(***************************************************************************)
EXTENDS Integers, Sequences, FiniteSets, TLC

NumRanks == 10
NumFiles == 9

Pos == (0..(NumRanks - 1)) \X (0..(NumFiles - 1))

NoPiece == <<"None", "None">>

(* board.squares[p.0][p.1].piece *)
At(board, p) == board.squares[p[1]][p[2]]

(* squares with squares[p.0][p.1].piece = v *)
SetSquare(squares, p, v) == [squares EXCEPT ![p[1]][p[2]] = v]

EmptySquares == [r \in 0..(NumRanks - 1) |-> [f \in 0..(NumFiles - 1) |-> NoPiece]]

Some(color, piece) == <<color, piece>>

Abs(x) == IF x < 0 THEN -x ELSE x

Opponent(color) == IF color = "Red" THEN "Black" ELSE "Red"

(* Vec::append over a sequence of sequences *)
RECURSIVE Flatten(_)
Flatten(ss) == IF ss = <<>> THEN <<>> ELSE Head(ss) \o Flatten(Tail(ss))

(***************************************************************************)
(* board.rs                                                                *)
(***************************************************************************)

Board_new ==
  [squares |-> EmptySquares,
   red_to_move |-> TRUE,
   halfmove_clock |-> 0,
   fullmove_number |-> 1]

(* the squares written by setup_initial_position, in the source's order *)
InitialPlacement ==
  << <<0, 0, "Red", "Chariot">>, <<0, 1, "Red", "Horse">>,
     <<0, 2, "Red", "Elephant">>, <<0, 3, "Red", "Advisor">>,
     <<0, 4, "Red", "General">>, <<0, 5, "Red", "Advisor">>,
     <<0, 6, "Red", "Elephant">>, <<0, 7, "Red", "Horse">>,
     <<0, 8, "Red", "Chariot">>,
     <<2, 1, "Red", "Cannon">>, <<2, 7, "Red", "Cannon">>,
     <<3, 0, "Red", "Soldier">>, <<3, 2, "Red", "Soldier">>,
     <<3, 4, "Red", "Soldier">>, <<3, 6, "Red", "Soldier">>,
     <<3, 8, "Red", "Soldier">>,
     <<9, 0, "Black", "Chariot">>, <<9, 1, "Black", "Horse">>,
     <<9, 2, "Black", "Elephant">>, <<9, 3, "Black", "Advisor">>,
     <<9, 4, "Black", "General">>, <<9, 5, "Black", "Advisor">>,
     <<9, 6, "Black", "Elephant">>, <<9, 7, "Black", "Horse">>,
     <<9, 8, "Black", "Chariot">>,
     <<7, 1, "Black", "Cannon">>, <<7, 7, "Black", "Cannon">>,
     <<6, 0, "Black", "Soldier">>, <<6, 2, "Black", "Soldier">>,
     <<6, 4, "Black", "Soldier">>, <<6, 6, "Black", "Soldier">>,
     <<6, 8, "Black", "Soldier">> >>

(* squares[r][f].piece = Some((c, p)) for every entry of a placement list, *)
(* in order                                                                 *)
RECURSIVE Place(_, _)
Place(squares, placement) ==
  IF placement = <<>> THEN squares
  ELSE Place(SetSquare(squares, <<Head(placement)[1], Head(placement)[2]>>,
                       Some(Head(placement)[3], Head(placement)[4])),
             Tail(placement))

(* the board setup_initial_position leaves in *self: every field is       *)
(* overwritten, so it does not depend on the board before the call        *)
setup_initial_position ==
  [squares |-> Place(EmptySquares, InitialPlacement),
   red_to_move |-> TRUE,
   halfmove_clock |-> 0,
   fullmove_number |-> 1]

(* make_move that leaves the piece on its source square as well *)
make_move_keeps_source(board, from, to) ==
  IF from[1] >= 10 \/ from[2] >= 9 \/ to[1] >= 10 \/ to[2] >= 9
  THEN [ok |-> FALSE, board |-> board]
  ELSE LET src == At(board, from)
           dst == At(board, to)
       IN  IF src = NoPiece \/ (src[1] = "Red") # board.red_to_move
              \/ (dst # NoPiece /\ dst[1] = src[1])
           THEN [ok |-> FALSE, board |-> board]
           ELSE [ok |-> TRUE,
                 board |-> [board EXCEPT
                              !.squares = SetSquare(@, to, src),
                              !.red_to_move = ~@]]

(* make_move without the same-colour destination test *)
make_move_no_dest_check(board, from, to) ==
  IF from[1] >= 10 \/ from[2] >= 9 \/ to[1] >= 10 \/ to[2] >= 9
  THEN [ok |-> FALSE, board |-> board]
  ELSE LET src == At(board, from)
       IN  IF src = NoPiece \/ (src[1] = "Red") # board.red_to_move
           THEN [ok |-> FALSE, board |-> board]
           ELSE [ok |-> TRUE,
                 board |-> [board EXCEPT
                              !.squares = SetSquare(SetSquare(@, to, src),
                                                    from, NoPiece),
                              !.red_to_move = ~@]]

(* make_move that forgets to switch turns *)
make_move_no_toggle(board, from, to) ==
  IF from[1] >= 10 \/ from[2] >= 9 \/ to[1] >= 10 \/ to[2] >= 9
  THEN [ok |-> FALSE, board |-> board]
  ELSE LET src == At(board, from)
           dst == At(board, to)
       IN  IF src = NoPiece \/ (src[1] = "Red") # board.red_to_move
              \/ (dst # NoPiece /\ dst[1] = src[1])
           THEN [ok |-> FALSE, board |-> board]
           ELSE [ok |-> TRUE,
                 board |-> [board EXCEPT
                              !.squares = SetSquare(SetSquare(@, to, src),
                                                    from, NoPiece)]]

(* Board::make_move: the returned bool and the board after the call *)
make_move(board, from, to) ==
  IF from[1] >= 10 \/ from[2] >= 9 \/ to[1] >= 10 \/ to[2] >= 9
  THEN [ok |-> FALSE, board |-> board]
  ELSE LET src == At(board, from)
           dst == At(board, to)
       IN  IF src = NoPiece
           THEN [ok |-> FALSE, board |-> board]
           ELSE IF (src[1] = "Red") # board.red_to_move
           THEN [ok |-> FALSE, board |-> board]
           ELSE IF dst # NoPiece /\ dst[1] = src[1]
           THEN [ok |-> FALSE, board |-> board]
           ELSE [ok |-> TRUE,
                 board |-> [board EXCEPT
                              !.squares = SetSquare(SetSquare(@, to, src),
                                                    from, NoPiece),
                              !.red_to_move = ~@]]

OnBoard(r, f) == r >= 0 /\ r < 10 /\ f >= 0 /\ f < 9

(* destination test shared by most arms of board.rs generate_piece_moves *)
EmptyOrEnemy(board, p, color) ==
  At(board, p) = NoPiece \/ At(board, p)[1] # color

(* the Chariot arm of board.rs generate_piece_moves, one direction; (r, f) *)
(* is the square under examination                                         *)
RECURSIVE board_chariot_ray(_, _, _, _, _, _)
board_chariot_ray(board, color, r, f, dr, dc) ==
  IF ~OnBoard(r, f) THEN {}
  ELSE (IF EmptyOrEnemy(board, <<r, f>>, color) THEN {<<r, f>>} ELSE {})
       \cup (IF At(board, <<r, f>>) # NoPiece THEN {}
             ELSE board_chariot_ray(board, color, r + dr, f + dc, dr, dc))

(* the Cannon arm of board.rs generate_piece_moves, one direction *)
RECURSIVE board_cannon_ray(_, _, _, _, _, _, _)
board_cannon_ray(board, color, r, f, dr, dc, jumped) ==
  IF ~OnBoard(r, f) THEN {}
  ELSE IF At(board, <<r, f>>) = NoPiece
       THEN (IF jumped THEN {<<r, f>>} ELSE {})
            \cup board_cannon_ray(board, color, r + dr, f + dc, dr, dc, jumped)
       ELSE IF At(board, <<r, f>>)[1] # color
            THEN IF ~jumped
                 THEN board_cannon_ray(board, color, r + dr, f + dc, dr, dc, TRUE)
                 ELSE {<<r, f>>}
            ELSE {}

Orthogonal == {<<0, 1>>, <<0, -1>>, <<1, 0>>, <<-1, 0>>}
Diagonal == {<<1, 1>>, <<1, -1>>, <<-1, 1>>, <<-1, -1>>}

(* board.rs generate_piece_moves (private to board.rs, used by is_in_check *)
(* only): the destinations of the piece on pos.  is_in_check only tests    *)
(* membership in the returned Vec, so the Vec is modelled by its set.      *)
board_generate_piece_moves(board, pos) ==
  LET color == At(board, pos)[1]
      piece_type == At(board, pos)[2]
      Step(ds, k) ==
        {p \in {<<pos[1] + k * d[1], pos[2] + k * d[2]>> : d \in ds} :
           OnBoard(p[1], p[2]) /\ EmptyOrEnemy(board, p, color)}
      fwd == IF color = "Red" THEN 1 ELSE -1
  IN  CASE piece_type = "General" -> Step(Orthogonal, 1)
        [] piece_type = "Advisor" -> Step(Diagonal, 1)
        [] piece_type = "Elephant" -> Step(Diagonal, 2)
        [] piece_type = "Horse" ->
             {p \in {<<pos[1] + d[1] + dd[1], pos[2] + d[2] + dd[2]>> :
                       d \in {e \in Orthogonal :
                                OnBoard(pos[1] + e[1], pos[2] + e[2])},
                       dd \in Diagonal} :
                OnBoard(p[1], p[2]) /\ EmptyOrEnemy(board, p, color)}
        [] piece_type = "Chariot" ->
             UNION {board_chariot_ray(board, color, pos[1] + d[1],
                                      pos[2] + d[2], d[1], d[2]) :
                      d \in Orthogonal}
        [] piece_type = "Cannon" ->
             UNION {board_cannon_ray(board, color, pos[1] + d[1],
                                     pos[2] + d[2], d[1], d[2], FALSE) :
                      d \in Orthogonal}
        [] piece_type = "Soldier" ->
             {p \in {<<pos[1] + fwd, pos[2]>>} :
                OnBoard(p[1], p[2]) /\ At(board, p) = NoPiece}
             \cup
             {p \in {<<pos[1] + fwd, pos[2] + 1>>, <<pos[1] + fwd, pos[2] - 1>>} :
                /\ OnBoard(p[1], p[2])
                /\ At(board, p) # NoPiece
                /\ At(board, p)[1] # color}

(* the General located by the first loop of is_in_check: `break` leaves    *)
(* the file loop only, so the last rank holding a General of that colour   *)
(* wins, and within it the first file                                      *)
is_in_check_general_pos(board, color) ==
  LET gs == {p \in Pos : At(board, p) = Some(color, "General")}
  IN  IF gs = {} THEN <<>>
      ELSE CHOOSE p \in gs :
             \A q \in gs : q[1] < p[1] \/ (q[1] = p[1] /\ q[2] >= p[2])

(* Board::is_in_check *)
is_in_check(board, color) ==
  LET general_pos == is_in_check_general_pos(board, color)
  IN  /\ general_pos # <<>>
      /\ \E p \in Pos :
           /\ At(board, p) # NoPiece
           /\ At(board, p)[1] = Opponent(color)
           /\ general_pos \in board_generate_piece_moves(board, p)

(* char::is_digit(10) and char::to_digit(10) on one-character strings *)
DigitChars == <<"0", "1", "2", "3", "4", "5", "6", "7", "8", "9">>

is_digit(c) == \E i \in 1..10 : DigitChars[i] = c

to_digit(c) == (CHOOSE i \in 1..10 : DigitChars[i] = c) - 1

(* the `match c` of from_fen; NoPiece stands for the `_ => return Err` arm *)
fen_piece(c) ==
  CASE c = "K" -> Some("Red", "General")
    [] c = "k" -> Some("Black", "General")
    [] c = "A" -> Some("Red", "Advisor")
    [] c = "a" -> Some("Black", "Advisor")
    [] c \in {"E", "B"} -> Some("Red", "Elephant")
    [] c \in {"e", "b"} -> Some("Black", "Elephant")
    [] c \in {"H", "N"} -> Some("Red", "Horse")
    [] c \in {"h", "n"} -> Some("Black", "Horse")
    [] c = "R" -> Some("Red", "Chariot")
    [] c = "r" -> Some("Black", "Chariot")
    [] c = "C" -> Some("Red", "Cannon")
    [] c = "c" -> Some("Black", "Cannon")
    [] c = "P" -> Some("Red", "Soldier")
    [] c = "p" -> Some("Black", "Soldier")
    [] OTHER -> NoPiece

(* the `for c in rank.chars()` loop of from_fen and the length test after *)
(* it, for the characters still to read                                   *)
RECURSIVE fen_rank(_, _, _, _)
fen_rank(squares, rank_idx, chars, file_idx) ==
  IF chars = <<>> THEN [ok |-> file_idx = 9, squares |-> squares]
  ELSE IF file_idx >= 9 THEN [ok |-> FALSE, squares |-> squares]
  ELSE IF is_digit(Head(chars))
       THEN fen_rank(squares, rank_idx, Tail(chars),
                     file_idx + to_digit(Head(chars)))
       ELSE IF fen_piece(Head(chars)) = NoPiece
            THEN [ok |-> FALSE, squares |-> squares]
            ELSE fen_rank(SetSquare(squares, <<rank_idx, file_idx>>,
                                    fen_piece(Head(chars))),
                          rank_idx, Tail(chars), file_idx + 1)

(* the `for (rank_idx, rank) in ranks` loop of from_fen *)
RECURSIVE fen_ranks(_, _, _)
fen_ranks(squares, ranks, rank_idx) ==
  IF rank_idx >= Len(ranks) THEN [ok |-> TRUE, squares |-> squares]
  ELSE LET r == fen_rank(squares, rank_idx, ranks[rank_idx + 1], 0)
       IN  IF r.ok THEN fen_ranks(r.squares, ranks, rank_idx + 1) ELSE r

(* the value of a string of decimal digits read so far as acc *)
RECURSIVE decimal(_, _)
decimal(chars, acc) ==
  IF chars = <<>> THEN acc
  ELSE decimal(Tail(chars), acc * 10 + to_digit(Head(chars)))

(* str::parse::<u16>: an optional '+', then one or more digits, at most    *)
(* 65535; -1 stands for Err                                                *)
parse_u16(token) ==
  LET digits == IF token # <<>> /\ Head(token) = "+" THEN Tail(token) ELSE token
  IN  IF digits = <<>> \/ \E i \in 1..Len(digits) : ~is_digit(digits[i])
      THEN -1
      ELSE IF decimal(digits, 0) > 65535 THEN -1 ELSE decimal(digits, 0)

(* Board::from_fen.  parts is the FEN after split_whitespace; parts[1] is  *)
(* given after split('/') as a sequence of ranks, every rank and every     *)
(* clock token as its sequence of characters.  ok = FALSE stands for Err.  *)
from_fen(parts) ==
  LET bad == [ok |-> FALSE, board |-> Board_new]
  IN  IF Len(parts) # 6 THEN bad
      ELSE IF Len(parts[1]) # 10 THEN bad
      ELSE LET placed == fen_ranks(Board_new.squares, parts[1], 0)
           IN  IF ~placed.ok THEN bad
               ELSE IF parts[2] \notin {"r", "w", "b"} THEN bad
               ELSE IF parse_u16(parts[5]) = -1 THEN bad
               ELSE IF parse_u16(parts[6]) = -1 THEN bad
               ELSE [ok |-> TRUE,
                     board |-> [squares |-> placed.squares,
                                red_to_move |-> parts[2] \in {"r", "w"},
                                halfmove_clock |-> parse_u16(parts[5]),
                                fullmove_number |-> parse_u16(parts[6])]]

(***************************************************************************)
(* moves.rs                                                                *)
(***************************************************************************)

Move_new(from, to) == [from |-> from, to |-> to]

(* moves.push(Move::new(pos, d)) for every destination of a sequence *)
MovesTo(pos, dests) == [i \in 1..Len(dests) |-> Move_new(pos, dests[i])]

(* the destination test that lets every square through *)
NotOwn_any(board, p, color) == TRUE

(* `if let Some((piece_color, _)) = ... { if piece_color != color {push} }  *)
(* else {push}`: the destination holds no piece of the mover's colour       *)
NotOwn(board, p, color) ==
  At(board, p) = NoPiece \/ At(board, p)[1] # color

(* one direction of generate_chariot_moves, from the square (x, y) *)
RECURSIVE chariot_ray(_, _, _, _, _, _)
chariot_ray(board, color, x, y, dx, dy) ==
  LET nx == x + dx
      ny == y + dy
  IN  IF nx < 0 \/ nx >= 10 \/ ny < 0 \/ ny >= 9 THEN <<>>
      ELSE IF At(board, <<nx, ny>>) = NoPiece
           THEN <<<<nx, ny>>>> \o chariot_ray(board, color, nx, ny, dx, dy)
           ELSE IF At(board, <<nx, ny>>)[1] # color
                THEN <<<<nx, ny>>>>
                ELSE <<>>

directions == <<<<0, 1>>, <<1, 0>>, <<0, -1>>, <<-1, 0>>>>

generate_chariot_moves(board, pos, color) ==
  MovesTo(pos, Flatten([i \in 1..4 |->
    chariot_ray(board, color, pos[1], pos[2],
                directions[i][1], directions[i][2])]))

(* is_horse_blocked without the look at the blocking square *)
is_horse_blocked_never(board, from, to) == FALSE

is_horse_blocked(board, from, to) ==
  LET blocking_pos ==
        IF to[1] > from[1]
        THEN IF to[2] > from[2]
             THEN IF to[1] - from[1] = 2 THEN <<from[1] + 1, from[2]>>
                  ELSE <<from[1], from[2] + 1>>
             ELSE IF to[1] - from[1] = 2 THEN <<from[1] + 1, from[2]>>
                  ELSE <<from[1], from[2] - 1>>
        ELSE IF to[2] > from[2]
             THEN IF from[1] - to[1] = 2 THEN <<from[1] - 1, from[2]>>
                  ELSE <<from[1], from[2] + 1>>
             ELSE IF from[1] - to[1] = 2 THEN <<from[1] - 1, from[2]>>
                  ELSE <<from[1], from[2] - 1>>
  IN  At(board, blocking_pos) # NoPiece

generate_horse_moves(board, pos, color) ==
  LET rank == pos[1]
      file == pos[2]
      possible_moves == Flatten(<<
        IF rank >= 2 /\ file <= 7 THEN <<<<rank - 2, file + 1>>>> ELSE <<>>,
        IF rank >= 2 /\ file >= 1 THEN <<<<rank - 2, file - 1>>>> ELSE <<>>,
        IF rank + 2 <= 9 /\ file <= 7 THEN <<<<rank + 2, file + 1>>>> ELSE <<>>,
        IF rank + 2 <= 9 /\ file >= 1 THEN <<<<rank + 2, file - 1>>>> ELSE <<>>,
        IF rank >= 1 /\ file <= 6 THEN <<<<rank - 1, file + 2>>>> ELSE <<>>,
        IF rank >= 1 /\ file >= 2 THEN <<<<rank - 1, file - 2>>>> ELSE <<>>,
        IF rank + 1 <= 9 /\ file <= 6 THEN <<<<rank + 1, file + 2>>>> ELSE <<>>,
        IF rank + 1 <= 9 /\ file >= 2 THEN <<<<rank + 1, file - 2>>>> ELSE <<>>
      >>)
      Keep(p) == ~is_horse_blocked(board, pos, p) /\ NotOwn(board, p, color)
  IN  MovesTo(pos, SelectSeq(possible_moves, Keep))

(* one direction of generate_cannon_moves, from the square (x, y) *)
RECURSIVE cannon_ray(_, _, _, _, _, _, _)
cannon_ray(board, color, x, y, dx, dy, platform_found) ==
  LET nx == x + dx
      ny == y + dy
  IN  IF nx < 0 \/ nx >= 10 \/ ny < 0 \/ ny >= 9 THEN <<>>
      ELSE IF ~platform_found
           THEN IF At(board, <<nx, ny>>) = NoPiece
                THEN <<<<nx, ny>>>>
                       \o cannon_ray(board, color, nx, ny, dx, dy, FALSE)
                ELSE cannon_ray(board, color, nx, ny, dx, dy, TRUE)
           ELSE IF At(board, <<nx, ny>>) # NoPiece
                THEN IF At(board, <<nx, ny>>)[1] # color
                     THEN <<<<nx, ny>>>>
                     ELSE <<>>
                ELSE cannon_ray(board, color, nx, ny, dx, dy, TRUE)

(* generate_cannon_moves stopping at the first piece, as the Chariot does *)
generate_cannon_moves_no_screen(board, pos, color) ==
  generate_chariot_moves(board, pos, color)

generate_cannon_moves(board, pos, color) ==
  MovesTo(pos, Flatten([i \in 1..4 |->
    cannon_ray(board, color, pos[1], pos[2],
               directions[i][1], directions[i][2], FALSE)]))

general_palace_moves(color) ==
  IF color = "Red"
  THEN <<<<7, 3>>, <<7, 4>>, <<7, 5>>, <<8, 3>>, <<8, 4>>, <<8, 5>>,
         <<9, 3>>, <<9, 4>>, <<9, 5>>>>
  ELSE <<<<0, 3>>, <<0, 4>>, <<0, 5>>, <<1, 3>>, <<1, 4>>, <<1, 5>>,
         <<2, 3>>, <<2, 4>>, <<2, 5>>>>

generate_general_moves(board, pos, color) ==
  LET Keep(p) == /\ Abs(p[1] - pos[1]) + Abs(p[2] - pos[2]) = 1
                 /\ NotOwn(board, p, color)
  IN  MovesTo(pos, SelectSeq(general_palace_moves(color), Keep))

advisor_palace_moves(color) ==
  IF color = "Red"
  THEN <<<<7, 3>>, <<7, 5>>, <<8, 4>>, <<9, 3>>, <<9, 5>>>>
  ELSE <<<<0, 3>>, <<0, 5>>, <<1, 4>>, <<2, 3>>, <<2, 5>>>>

generate_advisor_moves(board, pos, color) ==
  LET Keep(p) == /\ Abs(p[1] - pos[1]) = 1
                 /\ Abs(p[2] - pos[2]) = 1
                 /\ NotOwn(board, p, color)
  IN  MovesTo(pos, SelectSeq(advisor_palace_moves(color), Keep))

add_elephant_move(board, pos, new_pos, color) ==
  IF (color = "Red" /\ new_pos[1] >= 5) \/ (color = "Black" /\ new_pos[1] <= 4)
  THEN LET eye == <<(pos[1] + new_pos[1]) \div 2, (pos[2] + new_pos[2]) \div 2>>
       IN  IF At(board, eye) = NoPiece /\ NotOwn(board, new_pos, color)
           THEN <<Move_new(pos, new_pos)>>
           ELSE <<>>
  ELSE <<>>

generate_elephant_moves(board, pos, color) ==
  LET rank == pos[1]
      file == pos[2]
  IN  (IF rank + 2 <= 9 /\ file + 2 <= 8
       THEN add_elephant_move(board, pos, <<rank + 2, file + 2>>, color)
       ELSE <<>>)
      \o (IF rank + 2 <= 9 /\ file >= 2
          THEN add_elephant_move(board, pos, <<rank + 2, file - 2>>, color)
          ELSE <<>>)
      \o (IF rank >= 2 /\ file + 2 <= 8
          THEN add_elephant_move(board, pos, <<rank - 2, file + 2>>, color)
          ELSE <<>>)
      \o (IF rank >= 2 /\ file >= 2
          THEN add_elephant_move(board, pos, <<rank - 2, file - 2>>, color)
          ELSE <<>>)

(* generate_soldier_moves without the tests of the rank before the steps *)
(* to the side                                                           *)
generate_soldier_moves_any_rank(board, pos, color) ==
  LET rank == pos[1]
      file == pos[2]
      possible_moves ==
        IF color = "Red"
        THEN (IF rank > 0 THEN <<<<rank - 1, file>>>> ELSE <<>>)
             \o (IF file > 0 THEN <<<<rank, file - 1>>>> ELSE <<>>)
             \o (IF file < 8 THEN <<<<rank, file + 1>>>> ELSE <<>>)
        ELSE (IF rank < 9 THEN <<<<rank + 1, file>>>> ELSE <<>>)
             \o (IF file > 0 THEN <<<<rank, file - 1>>>> ELSE <<>>)
             \o (IF file < 8 THEN <<<<rank, file + 1>>>> ELSE <<>>)
      Keep(p) == NotOwn(board, p, color)
  IN  MovesTo(pos, SelectSeq(possible_moves, Keep))

generate_soldier_moves(board, pos, color) ==
  LET rank == pos[1]
      file == pos[2]
      possible_moves ==
        IF color = "Red"
        THEN (IF rank > 0 THEN <<<<rank - 1, file>>>> ELSE <<>>)
             \o (IF rank < 5 /\ file > 0 THEN <<<<rank, file - 1>>>> ELSE <<>>)
             \o (IF rank < 5 /\ file < 8 THEN <<<<rank, file + 1>>>> ELSE <<>>)
        ELSE (IF rank < 9 THEN <<<<rank + 1, file>>>> ELSE <<>>)
             \o (IF rank > 4 /\ file > 0 THEN <<<<rank, file - 1>>>> ELSE <<>>)
             \o (IF rank > 4 /\ file < 8 THEN <<<<rank, file + 1>>>> ELSE <<>>)
      Keep(p) == NotOwn(board, p, color)
  IN  MovesTo(pos, SelectSeq(possible_moves, Keep))

(* moves.rs generate_piece_moves *)
generate_piece_moves(board, pos) ==
  IF At(board, pos) = NoPiece THEN <<>>
  ELSE LET color == At(board, pos)[1]
           piece_type == At(board, pos)[2]
       IN  CASE piece_type = "General" -> generate_general_moves(board, pos, color)
             [] piece_type = "Advisor" -> generate_advisor_moves(board, pos, color)
             [] piece_type = "Elephant" -> generate_elephant_moves(board, pos, color)
             [] piece_type = "Horse" -> generate_horse_moves(board, pos, color)
             [] piece_type = "Chariot" -> generate_chariot_moves(board, pos, color)
             [] piece_type = "Cannon" -> generate_cannon_moves(board, pos, color)
             [] piece_type = "Soldier" -> generate_soldier_moves(board, pos, color)

(* the moves pushed by the rank loop and, inside it, the file loop *)
generate_legal_moves(board) ==
  LET color == IF board.red_to_move THEN "Red" ELSE "Black"
  IN  Flatten([r \in 1..10 |->
        Flatten([f \in 1..9 |->
          IF At(board, <<r - 1, f - 1>>) # NoPiece
             /\ At(board, <<r - 1, f - 1>>)[1] = color
          THEN generate_piece_moves(board, <<r - 1, f - 1>>)
          ELSE <<>>])])

(* the wire text as its sequence of bytes: b'a' = 97, b'9' = 57 *)
to_uci(mv) ==
  <<97 + mv.from[2], 57 - mv.from[1], 97 + mv.to[2], 57 - mv.to[1]>>

(***************************************************************************)
(* evaluation.rs                                                           *)
(***************************************************************************)

SOLDIER_VALUE == 30
CANNON_VALUE == 285
HORSE_VALUE == 270
ELEPHANT_VALUE == 120
ADVISOR_VALUE == 120
CHARIOT_VALUE == 600
GENERAL_VALUE == 6000

(* the piece-square tables; row r of the source is element r + 1 *)
SOLDIER_BONUS_RED ==
  <<<<0, 0, 0, 0, 0, 0, 0, 0, 0>>,
    <<0, 0, 0, 0, 0, 0, 0, 0, 0>>,
    <<0, 0, 0, 0, 0, 0, 0, 0, 0>>,
    <<2, 4, 6, 6, 6, 6, 6, 4, 2>>,
    <<6, 8, 10, 12, 12, 12, 10, 8, 6>>,
    <<10, 12, 14, 16, 18, 16, 14, 12, 10>>,
    <<14, 16, 18, 20, 20, 20, 18, 16, 14>>,
    <<18, 20, 22, 24, 24, 24, 22, 20, 18>>,
    <<22, 24, 26, 28, 28, 28, 26, 24, 22>>,
    <<26, 28, 30, 32, 32, 32, 30, 28, 26>>>>

CHARIOT_BONUS ==
  <<<<14, 14, 12, 18, 16, 18, 12, 14, 14>>,
    <<16, 20, 18, 24, 26, 24, 18, 20, 16>>,
    <<12, 12, 12, 18, 18, 18, 12, 12, 12>>,
    <<12, 18, 16, 22, 22, 22, 16, 18, 12>>,
    <<12, 14, 12, 18, 18, 18, 12, 14, 12>>,
    <<12, 16, 14, 20, 20, 20, 14, 16, 12>>,
    <<6, 10, 8, 14, 14, 14, 8, 10, 6>>,
    <<4, 8, 6, 14, 12, 14, 6, 8, 4>>,
    <<8, 4, 8, 16, 8, 16, 8, 4, 8>>,
    <<-2, 10, 6, 14, 12, 14, 6, 10, -2>>>>

HORSE_BONUS ==
  <<<<4, 8, 16, 12, 4, 12, 16, 8, 4>>,
    <<4, 10, 28, 16, 8, 16, 28, 10, 4>>,
    <<12, 14, 16, 20, 18, 20, 16, 14, 12>>,
    <<8, 24, 18, 24, 20, 24, 18, 24, 8>>,
    <<6, 16, 14, 18, 16, 18, 14, 16, 6>>,
    <<4, 12, 16, 14, 12, 14, 16, 12, 4>>,
    <<2, 6, 8, 6, 10, 6, 8, 6, 2>>,
    <<-2, 4, 4, 4, 4, 4, 4, 4, -2>>,
    <<0, 2, 4, 4, -2, 4, 4, 2, 0>>,
    <<0, -4, 0, 0, 0, 0, 0, -4, 0>>>>

CANNON_BONUS ==
  <<<<6, 4, 0, -10, -12, -10, 0, 4, 6>>,
    <<2, 2, 0, -4, -14, -4, 0, 2, 2>>,
    <<2, 2, 0, -10, -8, -10, 0, 2, 2>>,
    <<0, 0, -2, 4, 10, 4, -2, 0, 0>>,
    <<0, 0, 0, 2, 8, 2, 0, 0, 0>>,
    <<-2, 0, 4, 2, 6, 2, 4, 0, -2>>,
    <<0, 0, 0, 2, 4, 2, 0, 0, 0>>,
    <<4, 0, 8, 6, 10, 6, 8, 0, 4>>,
    <<0, 2, 4, 6, 6, 6, 4, 2, 0>>,
    <<0, 0, 2, 6, 6, 6, 2, 0, 0>>>>

ADVISOR_BONUS ==
  <<<<0, 0, 0, 0, 0, 0, 0, 0, 0>>,
    <<0, 0, 0, 0, 0, 0, 0, 0, 0>>,
    <<0, 0, 0, 0, 0, 0, 0, 0, 0>>,
    <<0, 0, 0, 0, 0, 0, 0, 0, 0>>,
    <<0, 0, 0, 0, 0, 0, 0, 0, 0>>,
    <<0, 0, 0, 0, 0, 0, 0, 0, 0>>,
    <<0, 0, 0, 0, 0, 0, 0, 0, 0>>,
    <<0, 0, 0, 20, 0, 20, 0, 0, 0>>,
    <<0, 0, 0, 0, 23, 0, 0, 0, 0>>,
    <<0, 0, 0, 20, 0, 20, 0, 0, 0>>>>

ELEPHANT_BONUS ==
  <<<<0, 0, 0, 0, 0, 0, 0, 0, 0>>,
    <<0, 0, 0, 0, 0, 0, 0, 0, 0>>,
    <<0, 0, 0, 0, 0, 0, 0, 0, 0>>,
    <<0, 0, 0, 0, 0, 0, 0, 0, 0>>,
    <<0, 0, 0, 0, 0, 0, 0, 0, 0>>,
    <<0, 0, 20, 0, 0, 0, 20, 0, 0>>,
    <<0, 0, 0, 0, 0, 0, 0, 0, 0>>,
    <<18, 0, 0, 0, 23, 0, 0, 0, 18>>,
    <<0, 0, 0, 0, 0, 0, 0, 0, 0>>,
    <<0, 0, 20, 0, 0, 0, 20, 0, 0>>>>

I32_MAX == 2^30 + (2^30 - 1)
I32_MIN == -I32_MAX - 1

Saturate(x) == IF x > I32_MAX THEN I32_MAX ELSE IF x < I32_MIN THEN I32_MIN ELSE x

(* i32::saturating_add, saturating_sub, saturating_mul *)
saturating_add(a, b) == Saturate(a + b)
saturating_sub(a, b) == Saturate(a - b)
saturating_mul(a, b) == Saturate(a * b)

(* Board::is_flying_general: called by evaluate_position, defined nowhere  *)
(* in the sources; the two Generals share a file with no piece between     *)
is_flying_general(board) ==
  \E p \in Pos :
    /\ At(board, p) = Some("Red", "General")
    /\ \E q \in Pos :
         /\ At(board, q) = Some("Black", "General")
         /\ p[2] = q[2]
         /\ \A r \in 0..9 :
              ((p[1] < r /\ r < q[1]) \/ (q[1] < r /\ r < p[1]))
                => At(board, <<r, p[2]>>) = NoPiece

(* find_king: the first General of the colour in rank-major order *)
find_king(board, color) ==
  LET gs == {p \in Pos : At(board, p) = Some(color, "General")}
  IN  IF gs = {} THEN <<>>
      ELSE CHOOSE p \in gs :
             \A q \in gs : p[1] < q[1] \/ (p[1] = q[1] /\ p[2] <= q[2])

(* find_general_files: the file of the last General of each colour in      *)
(* rank-major order, -1 for Rust's None                                    *)
find_general_file(board, color) ==
  LET gs == {p \in Pos : At(board, p) = Some(color, "General")}
  IN  IF gs = {} THEN -1
      ELSE (CHOOSE p \in gs :
              \A q \in gs : q[1] < p[1] \/ (q[1] = p[1] /\ q[2] <= p[2]))[2]

evaluate_king_safety(board, king_pos, color) ==
  LET rank_range == IF color = "Red" THEN 7..9 ELSE 0..2
      protector_count ==
        Cardinality({p \in rank_range \X (3..5) :
                       /\ At(board, p) # NoPiece
                       /\ At(board, p)[1] = color
                       /\ At(board, p)[2] \in {"Advisor", "Elephant"}})
      safety_score == protector_count * 15
      rank == king_pos[1]
      exposed_penalty ==
        IF color = "Red"
        THEN IF rank <= 7 THEN 0 ELSE (rank - 7) * 10
        ELSE IF rank >= 2 THEN (rank - 2) * 10 ELSE 0
  IN  safety_score - exposed_penalty

(* the value of the piece on p inside the material loop, before the sign *)
piece_value(board, p) ==
  LET color == At(board, p)[1]
      piece == At(board, p)[2]
      row == IF color = "Red" THEN p[1] + 1 ELSE (9 - p[1]) + 1
      col == p[2] + 1
  IN  CASE piece = "Soldier" -> SOLDIER_VALUE + SOLDIER_BONUS_RED[row][col]
        [] piece = "Cannon" -> CANNON_VALUE + CANNON_BONUS[row][col]
        [] piece = "Horse" -> HORSE_VALUE + HORSE_BONUS[row][col]
        [] piece = "Elephant" -> ELEPHANT_VALUE + ELEPHANT_BONUS[row][col]
        [] piece = "Advisor" -> ADVISOR_VALUE + ADVISOR_BONUS[row][col]
        [] piece = "Chariot" -> CHARIOT_VALUE + CHARIOT_BONUS[row][col]
        [] piece = "General" -> GENERAL_VALUE

RECURSIVE SumSeq(_)
SumSeq(xs) == IF xs = <<>> THEN 0 ELSE Head(xs) + SumSeq(Tail(xs))

(* the material loop: score += piece_value, negated for a Black piece *)
material(board) ==
  SumSeq([r \in 1..10 |->
    SumSeq([f \in 1..9 |->
      IF At(board, <<r - 1, f - 1>>) = NoPiece THEN 0
      ELSE IF At(board, <<r - 1, f - 1>>)[1] = "Black"
           THEN -piece_value(board, <<r - 1, f - 1>>)
           ELSE piece_value(board, <<r - 1, f - 1>>)])])

(* the value of `score` when evaluate_position reaches its last statement *)
evaluate_score(board) ==
  LET red_file == find_general_file(board, "Red")
      black_file == find_general_file(board, "Black")
      same_file == IF red_file # -1 /\ black_file # -1 /\ red_file = black_file
                   THEN -50 ELSE 0
      total_pieces == Cardinality({p \in Pos : At(board, p) # NoPiece})
      endgame ==
        IF total_pieces <= 12
        THEN 10 * Cardinality({p \in Pos : At(board, p) = Some("Red", "Soldier")})
             - 10 * Cardinality({p \in Pos : At(board, p) = Some("Black", "Soldier")})
        ELSE 0
      mobility_bonus == saturating_mul(Len(generate_legal_moves(board)), 5)
      s1 == same_file + material(board) + endgame
      s2 == saturating_add(s1, IF board.red_to_move THEN mobility_bonus
                                ELSE -mobility_bonus)
      red_king_pos == find_king(board, "Red")
      black_king_pos == find_king(board, "Black")
      s3 == IF red_king_pos # <<>>
            THEN saturating_add(s2, evaluate_king_safety(board, red_king_pos, "Red"))
            ELSE s2
      s4 == IF black_king_pos # <<>>
            THEN saturating_sub(s3, evaluate_king_safety(board, black_king_pos, "Black"))
            ELSE s3
  IN  s4

(* evaluate_position whose last statement returns score for both sides *)
evaluate_position_no_negate(board) ==
  IF is_flying_general(board)
  THEN IF board.red_to_move THEN -50000 ELSE 50000
  ELSE evaluate_score(board)

evaluate_position(board) ==
  IF is_flying_general(board)
  THEN IF board.red_to_move THEN -50000 ELSE 50000
  ELSE IF ~board.red_to_move THEN -evaluate_score(board)
       ELSE evaluate_score(board)

(***************************************************************************)
(* search.rs: negamax, quiescence_search, sort_moves and see, computed as  *)
(* the code computes them.  SearchInfo is the record of its three tables;  *)
(* the deadline is not reached during these searches, so should_stop() is  *)
(* false and the node counter is left out.  A Zobrist hash is taken to     *)
(* identify what it hashes: the squares and the side to move.              *)
(***************************************************************************)
INFINITY == 50000
MATE_SCORE == 49000
MAX_DEPTH == 128
LMR_LIMIT == 3
IID_DEPTH == 5
HISTORY_PRUNING_THRESHOLD == -4000
LATE_MOVE_PRUNING_LIMIT == 8
DELTA_PRUNING_MARGIN == 200

(* indexed from 0 in the source *)
FUTILITY_MARGIN == <<0, 100, 200, 300>>

RAZOR_MARGIN == <<0, 300, 500, 900>>

SEE_PIECE_VALUES == <<0, 100, 450, 450, 650, 900, 10000>>

MVV_LVA_SCORES ==
  << <<105, 205, 305, 405, 505, 605, 705>>,
     <<104, 204, 304, 404, 504, 604, 704>>,
     <<103, 203, 303, 403, 503, 603, 703>>,
     <<102, 202, 302, 402, 502, 602, 702>>,
     <<101, 201, 301, 401, 501, 601, 701>>,
     <<100, 200, 300, 400, 500, 600, 700>>,
     <<100, 200, 300, 400, 500, 600, 700>> >>

(* Option<Move>::None is NoMove; an absent tt entry is NoEntry *)
NoMove == [from |-> <<255, 255>>, to |-> <<255, 255>>]

NoEntry == [depth |-> 0, score |-> 0, node_type |-> "None", best_move |-> NoMove]

Max(a, b) == IF a > b THEN a ELSE b

Min(a, b) == IF a < b THEN a ELSE b

(* HashMap::get and HashMap::insert; a table entry never written reads as  *)
(* the value the table was built with                                      *)
Lookup(map, key, default) == IF key \in DOMAIN map THEN map[key] ELSE default

Insert(map, key, value) ==
  [k \in DOMAIN map \cup {key} |-> IF k = key THEN value ELSE map[k]]

(* SearchInfo::new *)
SearchInfo_new == [tt |-> <<>>, killer_moves |-> <<>>, history_table |-> <<>>]

compute_hash(board) == <<board.squares, board.red_to_move>>

get_piece_value_for_see(piece) ==
  CASE piece = "Soldier" -> 1
    [] piece = "Horse" -> 2
    [] piece = "Elephant" -> 3
    [] piece = "Chariot" -> 4
    [] piece = "Cannon" -> 5
    [] piece = "Advisor" -> 2
    [] piece = "General" -> 6

is_capture(board, mv) == At(board, mv.to) # NoPiece

see(board, mv) ==
  LET target == At(board, mv.to)
      attacker == At(board, mv.from)
  IN  IF target = NoPiece \/ attacker = NoPiece THEN 0
      ELSE LET attacker_value ==
                 SEE_PIECE_VALUES[get_piece_value_for_see(attacker[2]) + 1]
               target_value ==
                 SEE_PIECE_VALUES[get_piece_value_for_see(target[2]) + 1]
               gain0 == target_value - attacker_value
           IN  IF attacker_value <= target_value THEN target_value
               ELSE IF gain0 < -500 THEN gain0
               ELSE -gain0

history_index(mv) ==
  <<Min(mv.from[1], 9) * 9 + Min(mv.from[2], 8),
    Min(mv.to[1], 9) * 9 + Min(mv.to[2], 8)>>

get_history_score(info, mv) == Lookup(info.history_table, history_index(mv), 0)

update_history_score(info, mv, depth) ==
  [info EXCEPT !.history_table =
     Insert(info.history_table, history_index(mv),
            get_history_score(info, mv) + depth * depth)]

killers_at(info, ply) == Lookup(info.killer_moves, ply, <<NoMove, NoMove>>)

(* update_killer_move without the look at slot 0 *)
update_killer_move_always(info, mv, ply) ==
  [info EXCEPT !.killer_moves =
     Insert(info.killer_moves, ply, <<mv, killers_at(info, ply)[1]>>)]

update_killer_move(info, mv, ply) ==
  IF killers_at(info, ply)[1] # mv
  THEN [info EXCEPT !.killer_moves =
          Insert(info.killer_moves, ply, <<mv, killers_at(info, ply)[1]>>)]
  ELSE info

(* the element of a set of one element.  The({e : x \in {v}}) is e where   *)
(* x is v: the code's `let x = v;` before e, with v computed once          *)
The(S) == CHOOSE y \in S : TRUE

(* the score sort_moves gives a move *)
move_score(board, mv, info, ply, tt_move) ==
  (IF tt_move # NoMove /\ tt_move = mv THEN 20000 ELSE 0)
  + (IF At(board, mv.to) # NoPiece /\ At(board, mv.from) # NoPiece
     THEN MVV_LVA_SCORES[get_piece_value_for_see(At(board, mv.to)[2]) + 1]
                        [get_piece_value_for_see(At(board, mv.from)[2]) + 1]
          + see(board, mv)
     ELSE 0)
  + (IF killers_at(info, ply)[1] = mv THEN 9000 ELSE 0)
  + (IF killers_at(info, ply)[2] = mv THEN 8000 ELSE 0)
  + get_history_score(info, mv)

(* sort_by_key(|ms| -ms.score) is stable: the place of the move at i is    *)
(* behind the moves of a greater score and the earlier moves of its score  *)
sort_by_key(scores, i) ==
  1 + Cardinality({j \in 1..Len(scores) :
                     scores[j] > scores[i] \/ (scores[j] = scores[i] /\ j < i)})

sort_moves(board, moves, info, ply, tt_move) ==
  The({ [p \in 1..Len(scores) |->
           moves[CHOOSE i \in 1..Len(scores) : sort_by_key(scores, i) = p]]
        : scores \in {[i \in 1..Len(moves) |->
                         move_score(board, moves[i], info, ply, tt_move)]} })

RECURSIVE quiescence_search(_, _, _, _)
RECURSIVE quiescence_moves(_, _, _, _, _, _)
RECURSIVE negamax(_, _, _, _, _, _)
RECURSIVE negamax_moves(_, _, _)

(* the body of the `for mv in moves` loop of quiescence_search for the     *)
(* move at i, the board after it being new_board                           *)
quiescence_move(board, moves, i, alpha, beta, info, new_board) ==
  The({ IF score >= beta THEN beta
        ELSE The({ quiescence_moves(board, moves, i + 1, alpha2, beta, info)
                   : alpha2 \in {Max(alpha, score)} })
        : score \in {-quiescence_search(new_board, -beta, -alpha, info)} })

(* the `for mv in moves` loop of quiescence_search from the move at i on *)
quiescence_moves(board, moves, i, alpha, beta, info) ==
  IF i > Len(moves) THEN alpha
  ELSE The({ IF ~r.ok
             THEN quiescence_moves(board, moves, i + 1, alpha, beta, info)
             ELSE quiescence_move(board, moves, i, alpha, beta, info, r.board)
             : r \in {make_move(board, moves[i].from, moves[i].to)} })

(* quiescence_search from generate_legal_moves on, alpha raised to         *)
(* stand_pat                                                               *)
quiescence_captures(board, alpha, beta, info) ==
  The({ quiescence_moves(board, captures, 1, alpha, beta, info)
        : captures \in
            {SelectSeq(
               The({ sort_moves(board, moves, info, 0, NoMove)
                     : moves \in {generate_legal_moves(board)} }),
               LAMBDA mv : is_capture(board, mv))} })

quiescence_search(board, alpha, beta, info) ==
  The({ IF q.stand_pat >= q.beta THEN q.beta
        ELSE IF q.stand_pat < q.alpha - DELTA_PRUNING_MARGIN THEN q.alpha
        ELSE quiescence_captures(board, Max(q.alpha, q.stand_pat), q.beta,
                                 info)
        : q \in {[alpha |-> alpha, beta |-> beta,
                  stand_pat |-> evaluate_position(board)]} })

(* -negamax(..): the score of the call, negated, and the SearchInfo        *)
(* after it                                                                *)
negated(result) ==
  The({ [score |-> -r.score, info |-> r.info] : r \in {result} })

(* the search of one move in negamax's loop, late move reduction included: *)
(* n holds what the loop only reads, st its mutable locals                 *)
negamax_score(n, st, new_board, lmr, reduction) ==
  IF lmr
  THEN The({ IF reduced.score > st.alpha
             THEN negated(negamax(new_board, n.depth - 1, -n.beta, -st.alpha,
                                  reduced.info, n.ply + 1))
             ELSE reduced
             : reduced \in
                 {negated(negamax(new_board, n.depth - 1 - reduction, -n.beta,
                                  -st.alpha, st.info, n.ply + 1))} })
  ELSE negated(negamax(new_board, n.depth - 1, -n.beta, -st.alpha, st.info,
                       n.ply + 1))

(* update_killer_move, then update_history_score *)
update_killer_and_history(info, mv, ply, depth) ==
  The({ update_history_score(info1, mv, depth)
        : info1 \in {update_killer_move(info, mv, ply)} })

(* negamax's loop after the score of the move mv: the loop's locals and    *)
(* the tables as they stand at the end of the turn                         *)
negamax_after(n, st, mv, capture, res) ==
  LET better == res.score > st.best_score
      raised == better /\ res.score > st.alpha
      alpha2 == IF raised THEN res.score ELSE st.alpha
      cutoff == alpha2 >= n.beta
  IN  The({ [best_score |-> IF better THEN res.score ELSE st.best_score,
             best_move |-> IF better THEN mv ELSE st.best_move,
             node_type |-> IF cutoff THEN "LowerBound"
                           ELSE IF raised THEN "Exact" ELSE st.node_type,
             moves_searched |-> st.moves_searched,
             alpha |-> alpha2,
             info |-> IF cutoff /\ ~capture
                      THEN update_killer_and_history(info3, mv, n.ply,
                                                     n.depth * 2)
                      ELSE info3,
             cutoff |-> cutoff,
             score |-> res.score]
            : info3 \in
                {IF raised /\ ~capture
                 THEN update_killer_and_history(res.info, mv, n.ply, n.depth)
                 ELSE res.info} })

(* one turn of negamax's loop for a move make_move accepted; st1 holds the *)
(* locals with moves_searched counted up                                   *)
negamax_move(n, i, st1, new_board) ==
  LET mv == n.moves[i]
      capture == is_capture(n.board, mv)
      lmr == /\ n.depth >= LMR_LIMIT
             /\ st1.moves_searched > 3
             /\ ~n.in_check
             /\ ~capture
      history_score == get_history_score(st1.info, mv)
  IN  IF \/ capture /\ st1.moves_searched > 1 /\ see(n.board, mv) < -50
         \/ /\ n.depth <= 3
            /\ ~n.in_check
            /\ st1.moves_searched > 1
            /\ ~capture
            /\ n.static_eval + FUTILITY_MARGIN[n.depth + 1] <= st1.alpha
         \/ lmr /\ history_score < HISTORY_PRUNING_THRESHOLD /\ n.depth <= 3
      THEN negamax_moves(n, i + 1, st1)
      ELSE The({ IF st2.cutoff THEN st2
                 ELSE IF /\ st2.moves_searched > LATE_MOVE_PRUNING_LIMIT
                         /\ st2.score <= st2.alpha - DELTA_PRUNING_MARGIN
                 THEN st2
                 ELSE negamax_moves(n, i + 1, st2)
                 : st2 \in
                     {The({ negamax_after(n, st1, mv, capture, res)
                            : res \in
                                {negamax_score(
                                   n, st1, new_board, lmr,
                                   IF history_score < 0 THEN 2 ELSE 1)} })} })

(* the `for mv in &moves` loop of negamax from the move at i on *)
negamax_moves(n, i, st) ==
  IF i > Len(n.moves) THEN st
  ELSE The({ IF ~r.ok THEN negamax_moves(n, i + 1, st)
             ELSE The({ negamax_move(n, i, st1, r.board)
                        : st1 \in {[st EXCEPT !.moves_searched = @ + 1]} })
             : r \in {make_move(n.board, n.moves[i].from, n.moves[i].to)} })

(* negamax's loop and the tt insert after it, for the sorted moves and the *)
(* SearchInfo info1 the loop starts with                                   *)
negamax_loop(n, alpha, info1) ==
  The({ [score |-> st.best_score,
         info |-> [st.info EXCEPT !.tt =
                     Insert(st.info.tt, compute_hash(n.board),
                            [depth |-> n.depth, score |-> st.best_score,
                             node_type |-> st.node_type,
                             best_move |-> st.best_move])]]
        : st \in
            {negamax_moves(n, 1,
                           [best_score |-> -INFINITY, best_move |-> NoMove,
                            node_type |-> "UpperBound", moves_searched |-> 0,
                            alpha |-> alpha, info |-> info1,
                            cutoff |-> FALSE, score |-> 0])} })

(* negamax from generate_legal_moves on: depth is the depth after the     *)
(* extension, alpha and beta the bounds after the tt probe                 *)
negamax_search(board, depth, alpha, beta, info, ply, tt_move, in_check) ==
  LET iid == depth >= IID_DEPTH /\ tt_move = NoMove
  IN  The({
        IF moves = <<>>
        THEN [score |-> IF in_check THEN -MATE_SCORE + ply ELSE 0,
              info |-> info]
        ELSE The({
               The({ negamax_loop(n, alpha, info1)
                     : n \in
                         {[board |-> board,
                           moves |-> sort_moves(
                                       board, moves, info1, ply,
                                       IF iid
                                       THEN Lookup(info1.tt,
                                                   compute_hash(board),
                                                   NoEntry).best_move
                                       ELSE tt_move),
                           depth |-> depth, beta |-> beta, ply |-> ply,
                           in_check |-> in_check,
                           static_eval |-> evaluate_position(board)]} })
               : info1 \in
                   {IF iid
                    THEN negamax(board, depth - 2, alpha, beta, info, ply).info
                    ELSE info} })
        : moves \in {generate_legal_moves(board)} })

(* negamax from is_in_check on: the extension, the drop into               *)
(* quiescence_search and razoring                                          *)
negamax_node(board, depth0, alpha, beta, info, ply, tt_move) ==
  The({
    LET depth == IF in_check THEN depth0 + 1 ELSE depth0
        razor_margin == RAZOR_MARGIN[depth + 1]
    IN  IF depth <= 0
        THEN [score |-> quiescence_search(board, alpha, beta, info),
              info |-> info]
        ELSE IF /\ ~in_check
                /\ depth <= 3
                /\ evaluate_position(board) + razor_margin <= alpha
        THEN The({ IF q_score + razor_margin <= alpha
                   THEN [score |-> q_score, info |-> info]
                   ELSE negamax_search(board, depth, alpha, beta, info, ply,
                                       tt_move, in_check)
                   : q_score \in
                       {quiescence_search(board, alpha - razor_margin,
                                          alpha - razor_margin + 1, info)} })
        ELSE negamax_search(board, depth, alpha, beta, info, ply, tt_move,
                            in_check)
    : in_check \in
        {is_in_check(board, IF board.red_to_move THEN "Red" ELSE "Black")} })

negamax(board, depth, alpha, beta, info, ply) ==
  The({
    LET deep == a.tt_entry.node_type # "None" /\ a.tt_entry.depth >= a.depth
        alpha1 == IF deep /\ a.tt_entry.node_type = "LowerBound"
                  THEN Max(a.alpha, a.tt_entry.score) ELSE a.alpha
        beta1 == IF deep /\ a.tt_entry.node_type = "UpperBound"
                 THEN Min(a.beta, a.tt_entry.score) ELSE a.beta
    IN  IF deep /\ (a.tt_entry.node_type = "Exact" \/ alpha1 >= beta1)
        THEN [score |-> a.tt_entry.score, info |-> a.info]
        ELSE negamax_node(a.board, a.depth, alpha1, beta1, a.info, a.ply,
                          a.tt_entry.best_move)
    : a \in {[board |-> board, depth |-> depth, alpha |-> alpha,
              beta |-> beta, info |-> info, ply |-> ply,
              tt_entry |-> Lookup(info.tt, compute_hash(board), NoEntry)]} })

(***************************************************************************)
(* uci.rs: the engine's board under the position commands, and the         *)
(* positions the search derives from it with generated moves               *)
(***************************************************************************)

(* process_position: the (rank, file) pairs read from a move string, given *)
(* as its bytes: (byte - b'0', byte - b'a') in u8 arithmetic.  The inputs   *)
(* below keep every byte at or above b'0' resp. b'a', where the            *)
(* subtraction does not overflow.                                          *)
parse_move(text) ==
  [from |-> <<(text[2] - 48) % 256, (text[1] - 97) % 256>>,
   to |-> <<(text[4] - 48) % 256, (text[3] - 97) % 256>>]

VARIABLES
  board,      \* UCIEngine.board, or the clone of it a search node works on
  nmoves,     \* make_move calls that returned true since the position was set
  start_red,  \* red_to_move when the position was set
  call,       \* the latest make_move call: its arguments and its result
  sent,       \* the Move whose to_uci text the adapter was given, if any
  pc,         \* where find_best_move stands, "idle" outside of it
  info,       \* SearchInfo: the clock as last read, and the root's tt slot
  id,         \* the locals of iterative_deepening
  rt,         \* the frame of the negamax_root call under way
  iter,       \* history: what the deadline did to the iterations so far,
              \* and the window of the latest search of the root's moves
  out         \* what the latest position or go command reported

searchvars == <<pc, info, id, rt, iter>>

vars == <<board, nmoves, start_red, call, sent, pc, info, id, rt, iter, out>>

NoCall == [from |-> <<0, 0>>, to |-> <<0, 0>>, ok |-> FALSE, made |-> FALSE]

MaxPly == 2

(* find_best_move: SearchInfo::new(1000) *)
TimeLimit == 1000

NoResult == [score |-> 0, mv |-> NoMove]

IdleInfo == [elapsed |-> 0, tt |-> NoEntry]

IdleLocals ==
  [depth |-> 0, best_move |-> NoMove, prev_depth_time |-> 0, prev_score |-> 0,
   window_size |-> 0, alpha |-> 0, beta |-> 0, current_result |-> NoResult,
   depth_start |-> 0]

NoFrame == [todo |-> {}, best_score |-> 0, best_move |-> NoMove, ret |-> "none"]

NoHistory ==
  [cut |-> FALSE, completed |-> [depth |-> 0, mv |-> NoMove],
   searched |-> [alpha |-> 0, beta |-> 0]]

SearchIdle ==
  /\ pc = "idle"
  /\ info = IdleInfo
  /\ id = IdleLocals
  /\ rt = NoFrame
  /\ iter = NoHistory

EmptyRank == <<"9">>

Fen(ranks, side) == <<ranks, side, "-", "-", <<"0">>, <<"1">>>>

(* FEN strings given to `position fen`; the first rank of a FEN is rank 0 *)
FenChariotBetween ==
  <<<<"4", "k", "4">>, EmptyRank, EmptyRank, EmptyRank, EmptyRank,
    <<"4", "R", "4">>, EmptyRank, EmptyRank, EmptyRank, <<"4", "K", "4">>>>

FenSoldierBelow ==
  <<<<"3", "k", "5">>, EmptyRank, EmptyRank, EmptyRank, EmptyRank,
    EmptyRank, EmptyRank, EmptyRank, <<"4", "p", "4">>, <<"4", "K", "4">>>>

FenHorseCannon ==
  <<<<"3", "k", "a", "4">>, <<"4", "P", "4">>, <<"2", "H", "6">>, EmptyRank,
    <<"4", "c", "4">>, EmptyRank, EmptyRank, <<"4", "E", "4">>,
    <<"4", "A", "4">>, <<"3", "K", "5">>>>

FenTooLong ==
  <<<<"4", "k", "5">>, EmptyRank, EmptyRank, EmptyRank, EmptyRank,
    EmptyRank, EmptyRank, EmptyRank, EmptyRank, <<"4", "K", "4">>>>

FenTooShort ==
  <<<<"4", "k", "3">>, EmptyRank, EmptyRank, EmptyRank, EmptyRank,
    EmptyRank, EmptyRank, EmptyRank, EmptyRank, <<"4", "K", "4">>>>

FenPastTheEnd ==
  <<<<"4", "k", "4">>, <<"5", "5">>, EmptyRank, EmptyRank, EmptyRank,
    EmptyRank, EmptyRank, EmptyRank, EmptyRank, <<"4", "K", "4">>>>

FenNineRanks ==
  <<<<"4", "k", "4">>, EmptyRank, EmptyRank, EmptyRank, EmptyRank,
    EmptyRank, EmptyRank, EmptyRank, <<"4", "K", "4">>>>

FenUnknownPiece ==
  <<<<"4", "k", "4">>, EmptyRank, EmptyRank, EmptyRank, EmptyRank,
    <<"4", "Q", "4">>, EmptyRank, EmptyRank, EmptyRank, <<"4", "K", "4">>>>

(* positions for the move generator: a Horse with an occupied leg, a      *)
(* Cannon with a screen, Soldiers on both sides of the river              *)
FenHorseHobble ==
  <<<<"1", "H", "2", "k", "4">>, <<"1", "P", "7">>, EmptyRank, EmptyRank,
    EmptyRank, <<"5", "h", "p", "2">>, EmptyRank, EmptyRank, EmptyRank,
    <<"3", "K", "5">>>>

FenCannonScreen ==
  <<<<"1", "C", "1", "a", "E", "4">>, EmptyRank, <<"4", "k", "4">>,
    <<"1", "p", "7">>, EmptyRank, <<"1", "r", "7">>, EmptyRank,
    <<"3", "H", "1", "P", "1", "c", "1">>, EmptyRank, <<"3", "K", "5">>>>

FenSoldiers ==
  <<<<"4", "k", "3", "P">>, EmptyRank, <<"7", "p", "1">>,
    <<"7", "P", "P">>, <<"p", "3", "P", "4">>, <<"2", "p", "3", "P", "2">>,
    EmptyRank, EmptyRank, EmptyRank, <<"p", "2", "K", "5">>>>

GenFens ==
  {Fen(FenHorseHobble, "w"), Fen(FenHorseHobble, "b"),
   Fen(FenCannonScreen, "w"), Fen(FenCannonScreen, "b"),
   Fen(FenSoldiers, "w"), Fen(FenSoldiers, "b")}

(* positions searched to the end: two Red pieces around the Black General *)
(* Red Chariots (1,0) and (5,8) against the Black General on (0,5) *)
FenChariotMate ==
  <<<<"5", "k", "3">>, <<"R", "8">>, EmptyRank, EmptyRank, EmptyRank,
    <<"8", "R">>, EmptyRank, EmptyRank, EmptyRank, <<"3", "K", "5">>>>

(* Red Soldiers (1,4) and (2,3) against the Black General on (0,3) *)
FenSoldierNet ==
  <<<<"3", "k", "5">>, <<"4", "P", "4">>, <<"3", "P", "5">>, EmptyRank,
    EmptyRank, EmptyRank, EmptyRank, EmptyRank, EmptyRank,
    <<"5", "K", "3">>>>

(* the Generals face each other on file 4 and no Red move ends it *)
FenFacing ==
  <<<<"4", "k", "4">>, EmptyRank, EmptyRank, EmptyRank, EmptyRank,
    EmptyRank, EmptyRank, EmptyRank, EmptyRank, <<"3", "P", "K", "P", "3">>>>

MateFens ==
  {Fen(FenChariotMate, "w"), Fen(FenSoldierNet, "w"), Fen(FenFacing, "w")}

(* invalid inputs: one per way the FEN can be wrong *)
BadFenInputs ==
  {Fen(FenTooLong, "r"), Fen(FenTooShort, "r"), Fen(FenPastTheEnd, "r"),
   Fen(FenNineRanks, "r"), Fen(FenUnknownPiece, "r"),
   Fen(FenChariotBetween, "x"),
   <<FenChariotBetween, "r", "-", "-", <<"-">>, <<"1">>>>,
   <<FenChariotBetween, "r", "-", "-", <<"0">>, <<"1", "x">>>>,
   <<FenChariotBetween, "r", "-", "-", <<"0">>>>}

FenInputs ==
  {Fen(FenChariotBetween, "r"), Fen(FenChariotBetween, "b"),
   Fen(FenSoldierBelow, "w"), Fen(FenSoldierBelow, "b"),
   Fen(FenHorseCannon, "r"), Fen(FenHorseCannon, "b")} \cup BadFenInputs

(* Board::from_fen on each of the inputs *)
FenResults == [fen \in FenInputs \cup GenFens \cup MateFens |-> from_fen(fen)]

Init ==
  /\ board = Board_new
  /\ nmoves = 0
  /\ start_red = TRUE
  /\ call = NoCall
  /\ sent = NoMove
  /\ SearchIdle
  /\ out = "none"

(* main_loop, "ucinewgame" *)
UciNewGame ==
  /\ pc = "idle"
  /\ UNCHANGED searchvars
  /\ out' = "New game started"
  /\ board' = Board_new
  /\ nmoves' = 0
  /\ start_red' = TRUE
  /\ call' = NoCall
  /\ sent' = NoMove

(* process_position, "startpos" without moves *)
PositionStartpos ==
  /\ pc = "idle"
  /\ UNCHANGED searchvars
  /\ out' = "Setting up initial position"
  /\ board' = setup_initial_position
  /\ nmoves' = 0
  /\ start_red' = TRUE
  /\ call' = NoCall
  /\ sent' = NoMove

(* process_position, "fen" without moves, for the tokens after "fen": with  *)
(* fewer than six of them from_fen is not called; the board is replaced    *)
(* on Ok only.  This one replaces the board whatever from_fen returned.    *)
InstallFen_whatever(fen) ==
  /\ pc = "idle"
  /\ UNCHANGED searchvars
  /\ IF Len(fen) < 6
     THEN /\ out' = "Invalid FEN string - not enough parts"
          /\ UNCHANGED <<board, nmoves, start_red, call, sent>>
     ELSE LET r == FenResults[fen]
          IN  /\ board' = r.board
              /\ nmoves' = 0
              /\ start_red' = r.board.red_to_move
              /\ call' = NoCall
              /\ sent' = NoMove
              /\ out' = IF r.ok THEN "Position set from FEN successfully"
                        ELSE "Error parsing FEN"

(* process_position, "fen" without moves, for the tokens after "fen": with  *)
(* fewer than six of them from_fen is not called; the board is replaced    *)
(* on Ok only                                                              *)
InstallFen(fen) ==
  /\ pc = "idle"
  /\ UNCHANGED searchvars
  /\ IF Len(fen) < 6
     THEN /\ out' = "Invalid FEN string - not enough parts"
          /\ UNCHANGED <<board, nmoves, start_red, call, sent>>
     ELSE LET r == FenResults[fen]
          IN  IF r.ok
              THEN /\ board' = r.board
                   /\ nmoves' = 0
                   /\ start_red' = r.board.red_to_move
                   /\ call' = NoCall
                   /\ sent' = NoMove
                   /\ out' = "Position set from FEN successfully"
              ELSE /\ out' = "Error parsing FEN"
                   /\ UNCHANGED <<board, nmoves, start_red, call, sent>>

PositionFen == \E fen \in FenInputs : InstallFen(fen)

(* one turn of the move loop of negamax_root, negamax or quiescence_search: *)
(* a generated move is applied to a clone, which becomes the child node     *)
ApplyGenerated(max_ply) ==
  /\ nmoves < max_ply
  /\ \E moves \in {generate_legal_moves(board)} :
         \E i \in 1..Len(moves) :
           LET r == make_move(board, moves[i].from, moves[i].to)
           IN  /\ board' = r.board
               /\ nmoves' = IF r.ok THEN nmoves + 1 ELSE nmoves
               /\ call' = [from |-> moves[i].from, to |-> moves[i].to,
                           ok |-> r.ok, made |-> TRUE]
               /\ UNCHANGED <<start_red, sent, out>>
               /\ UNCHANGED searchvars

SearchMove == ApplyGenerated(MaxPly)

Next == UciNewGame \/ PositionStartpos \/ PositionFen \/ SearchMove

Spec == Init /\ [][Next]_vars

(* the nodes the evaluator is called on: the same tree, less deep *)
MaxEvalPly == 1

EvalNode == ApplyGenerated(MaxEvalPly)

NextEval == UciNewGame \/ PositionStartpos \/ PositionFen \/ EvalNode

SpecEval == Init /\ [][NextEval]_vars

(***************************************************************************)
(* uci.rs: the move loop of process_position, one move string at a time    *)
(***************************************************************************)

MaxAdapterMoves == 2

(* bytes of the move strings tried: files d, e, j and ranks 0, 9, ':' *)
WireFileBytes == {100, 101, 106}
WireRankBytes == {48, 57, 58}

WireTexts ==
  {<<f1, r1, f2, r2>> : f1 \in WireFileBytes, r1 \in WireRankBytes,
                        f2 \in WireFileBytes, r2 \in WireRankBytes}

(* the body of `for move_str in tokens[..]`: parse, then make_move *)
ApplyMoveString(text, origin) ==
  \E m \in {parse_move(text)} :
    \E r \in {make_move(board, m.from, m.to)} :
      /\ board' = r.board
      /\ nmoves' = IF r.ok THEN nmoves + 1 ELSE nmoves
      /\ call' = [from |-> m.from, to |-> m.to, ok |-> r.ok, made |-> TRUE]
      /\ sent' = origin
      /\ out' = "Applying moves"
      /\ UNCHANGED start_red
      /\ UNCHANGED searchvars

(* a move string of the user's *)
AdapterMove ==
  /\ nmoves < MaxAdapterMoves
  /\ \E text \in WireTexts : ApplyMoveString(text, NoMove)

(* the move string process_go printed for a generated move (`bestmove`,    *)
(* Display for Move is to_uci), given back in a position command           *)
EchoBestMove ==
  /\ nmoves < MaxAdapterMoves
  /\ \E moves \in {generate_legal_moves(board)} :
       \E i \in 1..Len(moves) : ApplyMoveString(to_uci(moves[i]), moves[i])

NextAdapter ==
  UciNewGame \/ PositionStartpos \/ PositionFen \/ AdapterMove \/ EchoBestMove

SpecAdapter == Init /\ [][NextAdapter]_vars

(* position commands alone: each sets the board and applies few moves *)
MaxFenMoves == 1

FenMove ==
  /\ nmoves < MaxFenMoves
  /\ \E text \in WireTexts : ApplyMoveString(text, NoMove)

NextFen == UciNewGame \/ PositionStartpos \/ PositionFen \/ FenMove

SpecFen == Init /\ [][NextFen]_vars

(* the move generator on its own: positions set by `position fen` or     *)
(* `position startpos`, and the nodes two generated moves below them     *)
MaxGenPly == 2

PositionGenFen == \E fen \in GenFens : InstallFen(fen)

GenMove == ApplyGenerated(MaxGenPly)

NextGen == UciNewGame \/ PositionStartpos \/ PositionGenFen \/ GenMove

SpecGen == Init /\ [][NextGen]_vars

(***************************************************************************)
(* search.rs: find_best_move, iterative_deepening and negamax_root.  A     *)
(* negamax call is one step: it returns some score and lets some time      *)
(* pass.  Of the transposition table only the root's slot is kept: what     *)
(* negamax stores there is overwritten by negamax_root before negamax_root *)
(* next reads it.                                                          *)
(***************************************************************************)

(* the last depth of `for depth in 1..=MAX_DEPTH` *)
MaxSearchDepth == 5

(* what start_time.elapsed().as_millis() may read *)
ClockReadings == {0, 600, 800, 1000}

(* what a negamax call may return *)
ScoreSet == {-48500, -100, 0, 100}

(* positions searched: the empty board of UCIEngine::new and this one *)
SearchFens == {Fen(FenSoldierBelow, "w")}

PositionSearchFen == \E fen \in SearchFens : InstallFen(fen)

boardvars == <<board, nmoves, start_red, call, sent>>

should_stop(elapsed) == elapsed >= TimeLimit

(* iterative_deepening without the test of should_stop before best_move *)
iteration_result_unchecked(best_move, mv, stop) == mv

(* iterative_deepening: best_move after `if !info.should_stop()` *)
iteration_result(best_move, mv, stop) == IF ~stop THEN mv ELSE best_move

(* process_go, find_best_move, and iterative_deepening up to its loop *)
Go ==
  /\ pc = "idle"
  /\ pc' = "loop"
  /\ info' = [elapsed |-> 0, tt |-> NoEntry]
  /\ id' = [IdleLocals EXCEPT !.depth = 1, !.window_size = 50]
  /\ UNCHANGED <<rt, iter, boardvars, out>>

(* negamax_root whose best_move starts as a move instead of None *)
CallNegamaxRoot_some_move(locals, ret) ==
  IF info.tt.node_type = "Exact" /\ info.tt.depth >= locals.depth
  THEN /\ id' = [locals EXCEPT !.current_result =
                   [score |-> info.tt.score, mv |-> info.tt.best_move]]
       /\ pc' = ret
       /\ UNCHANGED rt
  ELSE /\ id' = locals
       /\ pc' = "root"
       /\ \E moves \in {generate_legal_moves(board)} :
            rt' = [todo |-> {moves[i] : i \in 1..Len(moves)},
                   best_score |-> -INFINITY,
                   best_move |-> Move_new(<<0, 0>>, <<0, 0>>), ret |-> ret]

(* the entry of negamax_root: the tt probe, then generate_legal_moves *)
CallNegamaxRoot(locals, ret) ==
  IF info.tt.node_type = "Exact" /\ info.tt.depth >= locals.depth
  THEN /\ id' = [locals EXCEPT !.current_result =
                   [score |-> info.tt.score, mv |-> info.tt.best_move]]
       /\ pc' = ret
       /\ UNCHANGED rt
  ELSE /\ id' = locals
       /\ pc' = "root"
       /\ \E moves \in {generate_legal_moves(board)} :
            rt' = [todo |-> {moves[i] : i \in 1..Len(moves)},
                   best_score |-> -INFINITY, best_move |-> NoMove, ret |-> ret]

(* the head of the loop body: depth_start, the window, the first search *)
DepthStart ==
  /\ pc = "loop"
  /\ iter' = [iter EXCEPT !.cut = FALSE]
  /\ IF id.depth > 4
     THEN CallNegamaxRoot(
            [id EXCEPT !.depth_start = info.elapsed,
                       !.alpha = id.prev_score - id.window_size,
                       !.beta = id.prev_score + id.window_size], "aspirate")
     ELSE CallNegamaxRoot(
            [id EXCEPT !.depth_start = info.elapsed,
                       !.alpha = -INFINITY, !.beta = INFINITY], "record")
  /\ UNCHANGED <<info, boardvars, out>>

(* one turn of `for mv in moves` in negamax_root; the order sort_moves     *)
(* gave the moves is left open                                             *)
RootMove ==
  /\ pc = "root"
  /\ \E mv \in rt.todo :
       IF ~make_move(board, mv.from, mv.to).ok
       THEN /\ rt' = [rt EXCEPT !.todo = @ \ {mv}]
            /\ UNCHANGED <<info, iter>>
       ELSE \E now \in {t \in ClockReadings : t >= info.elapsed} :
            \E value \in IF should_stop(info.elapsed) THEN {0} ELSE ScoreSet :
              LET score == -value
                  better == score > rt.best_score
              IN  /\ rt' = [rt EXCEPT
                            !.best_score = IF better THEN score ELSE @,
                            !.best_move = IF better THEN mv ELSE @,
                            !.todo = IF should_stop(now) THEN {} ELSE @ \ {mv}]
                  /\ info' = [info EXCEPT !.elapsed = now]
                  /\ iter' = [iter EXCEPT !.cut = @ \/ should_stop(now)]
  /\ UNCHANGED <<pc, id, boardvars, out>>

(* the end of negamax_root: the tt insert and the return *)
RootReturn ==
  /\ pc = "root"
  /\ rt.todo = {}
  /\ info' = [info EXCEPT !.tt = [depth |-> id.depth, score |-> rt.best_score,
                                  node_type |-> "Exact",
                                  best_move |-> rt.best_move]]
  /\ id' = [id EXCEPT !.current_result =
              [score |-> rt.best_score, mv |-> rt.best_move]]
  /\ pc' = rt.ret
  /\ rt' = NoFrame
  /\ iter' = [iter EXCEPT !.searched = [alpha |-> id.alpha, beta |-> id.beta]]
  /\ UNCHANGED <<boardvars, out>>

(* the aspiration loop up to its re-search or its break *)
Aspirate ==
  /\ pc = "aspirate"
  /\ IF id.current_result.score <= id.alpha
     THEN CallNegamaxRoot(
            [id EXCEPT !.window_size = @ * 2,
                       !.alpha = id.current_result.score - id.window_size * 2],
            "aspirate_poll")
     ELSE IF id.current_result.score >= id.beta
     THEN CallNegamaxRoot(
            [id EXCEPT !.window_size = @ * 2,
                       !.beta = id.current_result.score + id.window_size * 2],
            "aspirate_poll")
     ELSE /\ id' = [id EXCEPT !.window_size = 50]
          /\ pc' = "record"
          /\ UNCHANGED rt
  /\ UNCHANGED <<info, iter, boardvars, out>>

(* `if info.should_stop() { break; }` after a re-search *)
AspiratePoll ==
  /\ pc = "aspirate_poll"
  /\ \E now \in {t \in ClockReadings : t >= info.elapsed} :
       /\ info' = [info EXCEPT !.elapsed = now]
       /\ iter' = [iter EXCEPT !.cut = @ \/ should_stop(now)]
       /\ pc' = IF should_stop(now) THEN "record" ELSE "aspirate"
  /\ UNCHANGED <<id, rt, boardvars, out>>

(* the rest of the loop body, from `if !info.should_stop()` on *)
Record ==
  /\ pc = "record"
  /\ \E now \in {t \in ClockReadings : t >= info.elapsed} :
       LET stop == should_stop(now)
           score == id.current_result.score
           mv == id.current_result.mv
           depth_time == now - id.depth_start
           leave ==
             /\ ~stop
             /\ \/ Abs(score) > MATE_SCORE - 1000
                \/ /\ id.depth > 4
                   /\ \/ /\ depth_time > id.prev_depth_time * 2
                         /\ now > TimeLimit \div 2
                      \/ now > (TimeLimit * 3) \div 4
       IN  /\ info' = [info EXCEPT !.elapsed = now]
           /\ id' = [id EXCEPT
                     !.best_move = iteration_result(@, mv, stop),
                     !.prev_score = IF ~stop THEN score ELSE @,
                     !.prev_depth_time =
                        IF ~stop /\ ~leave THEN depth_time ELSE @,
                     !.depth = IF leave THEN @ ELSE @ + 1]
           /\ iter' = [iter EXCEPT
                       !.cut = @ \/ stop,
                       !.completed = IF ~iter.cut /\ ~stop
                                     THEN [depth |-> id.depth, mv |-> mv]
                                     ELSE @]
           /\ pc' = IF leave \/ id.depth + 1 > MaxSearchDepth
                    THEN "done" ELSE "loop"
  /\ UNCHANGED <<rt, boardvars, out>>

(* process_go prints what find_best_move returned *)
BestMove ==
  /\ pc = "done"
  /\ pc' = "idle"
  /\ info' = IdleInfo
  /\ id' = IdleLocals
  /\ rt' = NoFrame
  /\ iter' = NoHistory
  /\ out' = IF id.best_move = NoMove THEN "bestmove none" ELSE "bestmove"
  /\ UNCHANGED boardvars

NextSearch ==
  \/ PositionSearchFen \/ UciNewGame \/ Go \/ DepthStart \/ RootMove
  \/ RootReturn \/ Aspirate \/ AspiratePoll \/ Record \/ BestMove

SpecSearch == Init /\ [][NextSearch]_vars

(***************************************************************************)
(* search.rs: find_best_move with negamax computed.  The root's loop runs  *)
(* one move a step, in the order sort_moves gives.  The deadline falls     *)
(* after the last depth modelled has completed, inside the next one, whose *)
(* result iterative_deepening then drops; the depths modelled take the     *)
(* branch without an aspiration window (depth <= 4).                       *)
(***************************************************************************)
MaxMateDepth == 2

PositionMateFen == \E fen \in MateFens : InstallFen(fen)

(* history: scores holds, for the moves the root's loop has searched at    *)
(* the current depth, the score of each                                    *)
MateHistory ==
  [cut |-> FALSE, completed |-> [depth |-> 0, mv |-> NoMove],
   searched |-> [alpha |-> 0, beta |-> 0], scores |-> <<>>]

(* process_go, find_best_move, and iterative_deepening up to its loop *)
MateGo ==
  /\ pc = "idle"
  /\ pc' = "loop"
  /\ info' = SearchInfo_new
  /\ id' = [IdleLocals EXCEPT !.depth = 1, !.window_size = 50]
  /\ iter' = MateHistory
  /\ UNCHANGED <<rt, boardvars, out>>

(* the head of the loop body and the entry of negamax_root: the tt probe,  *)
(* then generate_legal_moves and sort_moves                                *)
MateDepthStart ==
  /\ pc = "loop"
  /\ id.depth <= 4
  /\ \E tt_entry \in {Lookup(info.tt, compute_hash(board), NoEntry)} :
       IF tt_entry.node_type = "Exact" /\ tt_entry.depth >= id.depth
       THEN /\ id' = [id EXCEPT !.alpha = -INFINITY, !.beta = INFINITY,
                                !.current_result =
                                   [score |-> tt_entry.score,
                                    mv |-> tt_entry.best_move]]
            /\ pc' = "record"
            /\ UNCHANGED <<rt, iter>>
       ELSE /\ id' = [id EXCEPT !.alpha = -INFINITY, !.beta = INFINITY]
            /\ pc' = "root"
            /\ rt' = [todo |-> sort_moves(board, generate_legal_moves(board),
                                          info, 0, NoMove),
                      best_score |-> -INFINITY, best_move |-> NoMove,
                      ret |-> "record"]
            /\ iter' = [iter EXCEPT !.scores = <<>>]
  /\ UNCHANGED <<info, boardvars, out>>

(* one turn of `for mv in moves` in negamax_root *)
MateRootMove ==
  /\ pc = "root"
  /\ rt.todo # <<>>
  /\ \E mv \in {Head(rt.todo)} :
     \E r \in {make_move(board, mv.from, mv.to)} :
       IF ~r.ok
       THEN /\ rt' = [rt EXCEPT !.todo = Tail(@)]
            /\ UNCHANGED <<info, iter>>
       ELSE \E res \in {negamax(r.board, id.depth - 1, -id.beta, -id.alpha,
                                info, 1)} :
              /\ rt' = [rt EXCEPT
                        !.best_score = IF -res.score > @ THEN -res.score ELSE @,
                        !.best_move = IF -res.score > rt.best_score
                                      THEN mv ELSE @,
                        !.todo = Tail(@)]
              /\ info' = res.info
              /\ iter' = [iter EXCEPT !.scores = Insert(@, mv, -res.score)]
  /\ UNCHANGED <<pc, id, boardvars, out>>

(* the end of negamax_root: the tt insert and the return *)
MateRootReturn ==
  /\ pc = "root"
  /\ rt.todo = <<>>
  /\ info' = [info EXCEPT !.tt =
                Insert(info.tt, compute_hash(board),
                       [depth |-> id.depth, score |-> rt.best_score,
                        node_type |-> "Exact", best_move |-> rt.best_move])]
  /\ id' = [id EXCEPT !.current_result =
              [score |-> rt.best_score, mv |-> rt.best_move]]
  /\ pc' = "record"
  /\ rt' = NoFrame
  /\ UNCHANGED <<iter, boardvars, out>>

(* the rest of the loop body; should_stop() is false *)
MateRecord ==
  /\ pc = "record"
  /\ LET score == id.current_result.score
         leave == Abs(score) > MATE_SCORE - 1000
     IN  /\ id' = [id EXCEPT !.best_move = id.current_result.mv,
                             !.prev_score = score,
                             !.depth = IF leave THEN @ ELSE @ + 1]
         /\ iter' = [iter EXCEPT !.completed =
                       [depth |-> id.depth, mv |-> id.current_result.mv]]
         /\ pc' = IF leave \/ id.depth + 1 > MaxMateDepth
                  THEN "done" ELSE "loop"
  /\ UNCHANGED <<info, rt, boardvars, out>>

NextMate ==
  \/ PositionMateFen \/ UciNewGame \/ MateGo \/ MateDepthStart
  \/ MateRootMove \/ MateRootReturn \/ MateRecord \/ BestMove

SpecMate == Init /\ [][NextMate]_vars

(***************************************************************************)
(* search.rs: the killer and history tables under negamax's loop, and      *)
(* sort_moves on them.  One step is one turn of the loop from the score    *)
(* of the move on (search.rs:340-362); the turns of a search follow each   *)
(* other on the SearchInfo of that search.                                 *)
(***************************************************************************)

MaxOrderTurns == 3

(* a position with quiet moves and a capture for the side to move *)
FenOrder ==
  <<<<"3", "k", "5">>, EmptyRank, EmptyRank, <<"P", "8">>,
    <<"4", "p", "4">>, <<"4", "P", "4">>, EmptyRank, EmptyRank, EmptyRank,
    <<"5", "K", "3">>>>

OrderFens == {Fen(FenOrder, "w")}

OrderResults == [fen \in OrderFens |-> from_fen(fen)]

(* process_position, "fen", for one of these positions *)
PositionOrderFen ==
  /\ pc = "idle"
  /\ \E fen \in OrderFens :
       /\ OrderResults[fen].ok
       /\ board' = OrderResults[fen].board
       /\ start_red' = OrderResults[fen].board.red_to_move
  /\ nmoves' = 0
  /\ call' = NoCall
  /\ sent' = NoMove
  /\ out' = "Position set from FEN successfully"
  /\ UNCHANGED searchvars

(* the remaining depths of the nodes: the least one, and the depth below   *)
(* the root in the last iteration of iterative_deepening                   *)
OrderDepths == {1, MAX_DEPTH - 1}

OrderPlies == {1}

(* the window of the node and the scores a move can come back with: below  *)
(* alpha, inside the window, at beta                                       *)
OrderWindow == [alpha |-> 0, beta |-> 100]

OrderScores == {-1, 1, 100}

(* history: reported[ply] holds the moves update_killer_move was called    *)
(* with for the ply, in the order of the calls                             *)
OrderHistory == [turns |-> 0, reported |-> [ply \in OrderPlies |-> <<>>]]

(* find_best_move: SearchInfo::new, and the search down to a node *)
OrderGo ==
  /\ pc = "idle"
  /\ generate_legal_moves(board) # <<>>
  /\ pc' = "loop"
  /\ info' = SearchInfo_new
  /\ iter' = OrderHistory
  /\ UNCHANGED <<id, rt, boardvars, out>>

(* the calls of update_killer_move in one turn of the loop *)
OrderReports(st, mv, capture, after) ==
  (IF after.alpha # st.alpha /\ ~capture THEN <<mv>> ELSE <<>>)
  \o (IF after.cutoff /\ ~capture THEN <<mv>> ELSE <<>>)

(* one turn of negamax's loop at a node of this position, from the score   *)
(* of the move on                                                          *)
LoopTurn ==
  /\ pc = "loop"
  /\ iter.turns < MaxOrderTurns
  /\ \E moves \in {generate_legal_moves(board)} :
     \E i \in 1..Len(moves), depth \in OrderDepths, ply \in OrderPlies :
     \E score \in OrderScores :
     \E capture \in {is_capture(board, moves[i])} :
     \E n \in {[board |-> board, moves |-> moves, depth |-> depth,
                beta |-> OrderWindow.beta, ply |-> ply, in_check |-> FALSE,
                static_eval |-> 0]} :
     \E st \in {[best_score |-> OrderWindow.alpha, best_move |-> NoMove,
                 node_type |-> "UpperBound", moves_searched |-> 1,
                 alpha |-> OrderWindow.alpha, info |-> info,
                 cutoff |-> FALSE, score |-> 0]} :
     \E after \in {negamax_after(n, st, moves[i], capture,
                                 [score |-> score, info |-> info])} :
       /\ make_move(board, moves[i].from, moves[i].to).ok
       /\ info' = after.info
       /\ rt' = [mv |-> moves[i], depth |-> depth, capture |-> capture,
                 cutoff |-> after.cutoff]
       /\ iter' = [iter EXCEPT
                   !.turns = @ + 1,
                   !.reported[ply] =
                      @ \o OrderReports(st, moves[i], capture, after)]
  /\ UNCHANGED <<pc, id, boardvars, out>>

(* the search is over: find_best_move returns and its SearchInfo is dropped *)
OrderDone ==
  /\ pc = "loop"
  /\ pc' = "idle"
  /\ info' = IdleInfo
  /\ rt' = NoFrame
  /\ iter' = NoHistory
  /\ out' = "bestmove"
  /\ UNCHANGED <<id, boardvars>>

NextOrder == UciNewGame \/ PositionOrderFen \/ OrderGo \/ LoopTurn \/ OrderDone

SpecOrder == Init /\ [][NextOrder]_vars

(***************************************************************************)
(* search.rs: the first recursion path of the first iteration.  From a     *)
(* new SearchInfo, iterative_deepening calls negamax_root at depth 1,      *)
(* which calls negamax on the first move of its sorted list; each negamax  *)
(* that reaches its loop calls negamax on the first move of its own list   *)
(* before anything else is searched: no call has returned, so the tt, the  *)
(* killers and the history are as SearchInfo::new left them, alpha is      *)
(* still -INFINITY, and the move is the first of the loop, which no        *)
(* pruning rule skips.  The deadline is not reached.                       *)
(***************************************************************************)

(* each General is attacked, for is_in_check, by a Horse whose leg is      *)
(* blocked: (4,6) on (2,5) past (3,6), and (8,6) on (9,4) past (8,5)       *)
FenHobbledChecks ==
  <<<<"P", "2", "a", "5">>, EmptyRank, <<"5", "k", "3">>, <<"6", "P", "2">>,
    <<"6", "H", "2">>, EmptyRank, EmptyRank, EmptyRank,
    <<"5", "p", "h", "2">>, <<"4", "K", "4">>>>

PathFens == {Fen(FenHobbledChecks, "w"), Fen(FenChariotMate, "w")}

PathResults == [fen \in PathFens |-> from_fen(fen)]

(* process_position, "fen", for one of these positions *)
PositionPathFen ==
  /\ pc = "idle"
  /\ \E fen \in PathFens :
       /\ PathResults[fen].ok
       /\ board' = PathResults[fen].board
       /\ start_red' = PathResults[fen].board.red_to_move
  /\ nmoves' = 0
  /\ call' = NoCall
  /\ sent' = NoMove
  /\ out' = "Position set from FEN successfully"
  /\ UNCHANGED searchvars

(* the index in the sorted list of the first move make_move accepts, 0 if  *)
(* there is none                                                           *)
first_accepted(b, moves) ==
  The({IF ok = {} THEN 0 ELSE CHOOSE i \in ok : \A j \in ok : i <= j
       : ok \in {{i \in 1..Len(moves) :
                    make_move(b, moves[i].from, moves[i].to).ok}}})

(* the call of negamax for the move at i of the list: the clone after      *)
(* make_move becomes the node, the window is negated                       *)
CallNegamax(moves, i, depth, alpha, beta, ply) ==
  /\ board' = make_move(board, moves[i].from, moves[i].to).board
  /\ nmoves' = nmoves + 1
  /\ call' = [from |-> moves[i].from, to |-> moves[i].to, ok |-> TRUE,
              made |-> TRUE]
  /\ rt' = [depth |-> depth - 1, alpha |-> -beta, beta |-> -alpha,
            ply |-> ply]
  /\ pc' = "negamax"

(* process_go, find_best_move, iterative_deepening at depth 1 and          *)
(* negamax_root up to its first call of negamax                            *)
PathGo ==
  /\ pc = "idle"
  /\ info' = SearchInfo_new
  /\ id' = [IdleLocals EXCEPT !.depth = 1, !.window_size = 50]
  /\ \E moves \in {sort_moves(board, generate_legal_moves(board),
                              SearchInfo_new, 0, NoMove)} :
     \E i \in {first_accepted(board, moves)} :
       IF i = 0
       THEN /\ pc' = "returned"
            /\ UNCHANGED <<rt, board, nmoves, call>>
       ELSE CallNegamax(moves, i, 1, -INFINITY, INFINITY, 1)
  /\ UNCHANGED <<iter, start_red, sent, out>>

(* negamax from its entry to its first call of negamax.  "quiescence",     *)
(* "razoring", "iid" and "returned" are the ways it does something else    *)
(* first; "panic" is killer_moves[ply] with ply outside the Vec            *)
NegamaxDescend ==
  /\ pc = "negamax"
  /\ Lookup(info.tt, compute_hash(board), NoEntry) = NoEntry
  /\ \E in_check \in {is_in_check(board, IF board.red_to_move THEN "Red"
                                         ELSE "Black")} :
     \E depth \in {IF in_check THEN rt.depth + 1 ELSE rt.depth} :
       IF depth <= 0
       THEN /\ pc' = "quiescence"
            /\ UNCHANGED <<rt, board, nmoves, call>>
       ELSE IF /\ ~in_check
               /\ depth <= 3
               /\ evaluate_position(board) + RAZOR_MARGIN[depth + 1] <= rt.alpha
       THEN /\ pc' = "razoring"
            /\ UNCHANGED <<rt, board, nmoves, call>>
       ELSE IF generate_legal_moves(board) = <<>>
       THEN /\ pc' = "returned"
            /\ UNCHANGED <<rt, board, nmoves, call>>
       ELSE IF depth >= IID_DEPTH
       THEN /\ pc' = "iid"
            /\ UNCHANGED <<rt, board, nmoves, call>>
       ELSE IF rt.ply >= MAX_DEPTH
       THEN /\ pc' = "panic"
            /\ UNCHANGED <<rt, board, nmoves, call>>
       ELSE \E moves \in {sort_moves(board, generate_legal_moves(board),
                                     info, rt.ply, NoMove)} :
            \E i \in {first_accepted(board, moves)} :
              IF i = 0
              THEN /\ pc' = "returned"
                   /\ UNCHANGED <<rt, board, nmoves, call>>
              ELSE CallNegamax(moves, i, depth, rt.alpha, rt.beta, rt.ply + 1)
  /\ UNCHANGED <<info, id, iter, start_red, sent, out>>

NextPath == UciNewGame \/ PositionPathFen \/ PathGo \/ NegamaxDescend

SpecPath == Init /\ [][NextPath]_vars

(***************************************************************************)
(* Properties of the board and the move generator                          *)
(***************************************************************************)

Colors == {"Red", "Black"}

Generals(b, color) == {p \in Pos : At(b, p) = Some(color, "General")}

(* some enemy piece has a move of the moves.rs generator onto color's General *)
GeneratorAttacksGeneral(b, color) ==
  \E g \in Generals(b, color) :
    \E p \in Pos :
      /\ At(b, p) # NoPiece
      /\ At(b, p)[1] = Opponent(color)
      /\ \E ms \in {generate_piece_moves(b, p)} :
           \E i \in 1..Len(ms) : ms[i].to = g

(* C1: is_in_check(board, c) is true iff some enemy piece has a            *)
(* pseudo-legal move, as generate_legal_moves produces them, onto the      *)
(* square of c's General.                                                  *)
C1_InCheckIffGeneratedAttack ==
  \A c \in Colors : is_in_check(board, c) <=> GeneratorAttacksGeneral(board, c)

(* C4: in the position installed by setup_initial_position, Red to move,   *)
(* generate_legal_moves returns exactly 44 moves.                          *)
C4_InitialPositionHas44Moves ==
  (board = setup_initial_position /\ board.red_to_move)
    => Len(generate_legal_moves(board)) = 44

InOwnPalace(p, color) ==
  /\ p[2] \in 3..5
  /\ IF color = "Red" THEN p[1] \in 7..9 ELSE p[1] \in 0..2

OnOwnSide(p, color) == IF color = "Red" THEN p[1] >= 5 ELSE p[1] <= 4

PlacementInvariants(b) ==
  \A p \in Pos :
    /\ (At(b, p) # NoPiece /\ At(b, p)[2] \in {"General", "Advisor"})
         => InOwnPalace(p, At(b, p)[1])
    /\ (At(b, p) # NoPiece /\ At(b, p)[2] = "Elephant")
         => OnOwnSide(p, At(b, p)[1])

(* C5: the position installed by setup_initial_position has every General *)
(* and Advisor in its own palace (Red ranks 7-9, Black ranks 0-2, files    *)
(* 3-5) and every Elephant on its own side of the river (Red rank >= 5,    *)
(* Black rank <= 4), the convention of the move generator.                 *)
C5_InitialPlacementInvariants ==
  board = setup_initial_position => PlacementInvariants(board)

OneGeneralEach(b) ==
  \A c \in Colors : Cardinality(Generals(b, c)) = 1

(* C8: a generated move applied with make_move to a position that has one  *)
(* General per colour yields a position that has one General per colour.   *)
C8_OneGeneralPerColour ==
  [][(SearchMove /\ OneGeneralEach(board)) => OneGeneralEach(board')]_vars

(* the two Generals are on one file with no piece between them *)
FacingGenerals(b) ==
  \E p \in Generals(b, "Red"), q \in Generals(b, "Black") :
    /\ p[2] = q[2]
    /\ \A r \in 0..9 :
         ((p[1] < r /\ r < q[1]) \/ (q[1] < r /\ r < p[1]))
           => At(b, <<r, p[2]>>) = NoPiece

(* C9: no generated move applied with make_move to a position without      *)
(* facing Generals yields a position with facing Generals.                 *)
C9_NoMoveProducesFacingGenerals ==
  [][(SearchMove /\ ~FacingGenerals(board)) => ~FacingGenerals(board')]_vars

PieceCount(b) == Cardinality({p \in Pos : At(b, p) # NoPiece})

(* C15: a generated move applied with make_move yields a position with the *)
(* same number of pieces when the destination was empty and one piece less *)
(* when it held a piece; no move adds a piece or removes more than one.    *)
C15_PieceCountAfterMove ==
  [][EvalNode =>
       PieceCount(board') = (IF At(board, call'.to) # NoPiece
                             THEN PieceCount(board) - 1
                             ELSE PieceCount(board))]_vars

(* a generated move has captured: of the three pieces of the position set  *)
(* two are left                                                            *)
C15_Witness ==
  /\ call.made /\ call.ok
  /\ At(board, call.from) = NoPiece
  /\ PieceCount(board) = 2

(***************************************************************************)
(* Properties of the evaluator                                             *)
(***************************************************************************)

(* search.rs quiescence_search: let stand_pat = evaluate_position(board)   *)
quiescence_stand_pat(b) == evaluate_position(b)

(* C10 as stated: evaluate_position returns the Red-perspective score      *)
(* whichever side is to move; the evaluator does not negate it for Black.  *)
C10_EvaluatorIsRedRelative ==
  ~is_flying_general(board) => evaluate_position(board) = evaluate_score(board)

(* C10 amended: outside the flying-general return, evaluate_position       *)
(* returns the score from the side to move's perspective: the accumulated  *)
(* Red-perspective score when Red is to move and its negation when Black   *)
(* is to move; quiescence_search uses that value without negating it.      *)
C10_EvaluatorIsSideRelative ==
  ~is_flying_general(board) =>
    \A score \in {evaluate_score(board)}, result \in {evaluate_position(board)} :
      /\ result = (IF board.red_to_move THEN score ELSE -score)
      /\ quiescence_stand_pat(board) = result

(* Black is to move, Red is ahead, and the evaluator returns a negative score *)
C10_Witness ==
  /\ ~board.red_to_move
  /\ ~is_flying_general(board)
  /\ nmoves > 0
  /\ evaluate_score(board) > 0
  /\ evaluate_position(board) < 0

(* C11: for the initial position, evaluate_position minus 5 times the      *)
(* number of generated moves of the side to move is 0: the material,       *)
(* piece-square, same-file and king-safety terms cancel.                   *)
C11_InitialEvaluationIsMobilityOnly ==
  board = setup_initial_position =>
    evaluate_position(board) - 5 * Len(generate_legal_moves(board)) = 0

(* the Advisors and Elephants of the colour in its palace *)
Protectors(b, color) ==
  {p \in (IF color = "Red" THEN 7..9 ELSE 0..2) \X (3..5) :
     At(b, p) \in {Some(color, "Advisor"), Some(color, "Elephant")}}

(* what evaluate_king_safety deducts for the General's rank: its result    *)
(* is 15 per protector less this penalty                                   *)
ExposurePenalty(b, color) ==
  15 * Cardinality(Protectors(b, color))
    - evaluate_king_safety(b, find_king(b, color), color)

(* C25: the exposure penalty of evaluate_king_safety is 10 per rank beyond *)
(* rank 7 for a Red General and 10 per rank before rank 2 for a Black      *)
(* General (rank 1: 10, rank 0: 20), 0 otherwise: a Black General at rank  *)
(* r is charged what a Red General at rank 9 - r is.                       *)
C25_ExposurePenaltyMirrors ==
  \A color \in {"Red", "Black"} :
    find_king(board, color) # <<>> =>
      \A rank \in {find_king(board, color)[1]} :
        ExposurePenalty(board, color) =
          (IF color = "Red"
           THEN IF rank > 7 THEN 10 * (rank - 7) ELSE 0
           ELSE IF rank < 2 THEN 10 * (2 - rank) ELSE 0)

(* C26: when the Generals face each other on an open file,                 *)
(* evaluate_position returns -50000, the side to move losing, whether Red  *)
(* or Black is to move.                                                    *)
C26_FlyingGeneralLosesForSideToMove ==
  is_flying_general(board) => evaluate_position(board) = -50000

(***************************************************************************)
(* Properties of the position command                                      *)
(***************************************************************************)

KnownPieceLetters ==
  {"K", "k", "A", "a", "E", "B", "e", "b", "H", "N", "h", "n",
   "R", "r", "C", "c", "P", "p"}

(* the files a FEN rank describes: a digit stands for that many, any other *)
(* character for one                                                       *)
RECURSIVE RankFiles(_)
RankFiles(chars) ==
  IF chars = <<>> THEN 0
  ELSE (IF is_digit(Head(chars)) THEN to_digit(Head(chars)) ELSE 1)
       + RankFiles(Tail(chars))

WellFormedNumber(token) ==
  token # <<>> /\ \A i \in 1..Len(token) : is_digit(token[i])

(* a FEN with none of the faults C14 lists *)
ValidFen(parts) ==
  /\ Len(parts) = 6
  /\ Len(parts[1]) = 10
  /\ \A i \in 1..Len(parts[1]) :
       /\ RankFiles(parts[1][i]) = 9
       /\ \A j \in 1..Len(parts[1][i]) :
            is_digit(parts[1][i][j]) \/ parts[1][i][j] \in KnownPieceLetters
  /\ parts[2] \in {"r", "w", "b"}
  /\ WellFormedNumber(parts[5])
  /\ WellFormedNumber(parts[6])

InvalidFenInputs == {fen \in FenInputs : ~ValidFen(fen)}

C2_SideToMoveParity ==
  board.red_to_move = (IF nmoves % 2 = 0 THEN start_red ELSE ~start_red)

(* two calls returned true, the second of them the latest call *)
C2_Witness == nmoves = 2 /\ call.made /\ call.ok

(* the cases in which C3 has make_move reject the call *)
MustReject(b, from, to) ==
  IF from[1] >= 10 \/ from[2] >= 9 \/ to[1] >= 10 \/ to[2] >= 9 THEN TRUE
  ELSE \/ At(b, from) = NoPiece
       \/ At(b, from)[1] # (IF b.red_to_move THEN "Red" ELSE "Black")
       \/ At(b, to)[1] = At(b, from)[1]

(* the steps that hand a move string to make_move: no other step reports   *)
(* "Applying moves"                                                        *)
MoveStringApplied == call'.made /\ out' = "Applying moves"

(* C3: make_move returns false and leaves the whole board unchanged when a *)
(* coordinate is out of range, the source is empty, the source piece is    *)
(* not of the side to move or the destination holds a piece of the mover's *)
(* colour (from = to included).                                            *)
C3_RejectedMoveLeavesBoard ==
  [][(MoveStringApplied /\ MustReject(board, call'.from, call'.to))
       => (~call'.ok /\ board' = board)]_vars

(* the latest call named two squares of the board, the source a piece of   *)
(* the side to move and the destination another piece of that colour, and  *)
(* it was rejected                                                         *)
C3_Witness ==
  /\ call.made /\ ~call.ok
  /\ call.from[1] < 10 /\ call.from[2] < 9 /\ call.to[1] < 10 /\ call.to[2] < 9
  /\ call.from # call.to
  /\ At(board, call.from) # NoPiece
  /\ At(board, call.from)[1] = (IF board.red_to_move THEN "Red" ELSE "Black")
  /\ At(board, call.to)[1] = At(board, call.from)[1]

(* C7: a move string produced by to_uci is read back by the adapter as the *)
(* same (rank, file) pairs before make_move is called.                     *)
C7_WireRoundTrip ==
  (call.made /\ sent # NoMove) => (call.from = sent.from /\ call.to = sent.to)

(***************************************************************************)
(* Properties of the search                                                *)
(***************************************************************************)

(* C6: find_best_move returns the move of the last iteration that ran to   *)
(* completion with no deadline poll of it true, None if there is no such   *)
(* iteration; never the move of an iteration the deadline cut short.       *)
C6_ReturnsLastCompletedIteration ==
  pc = "done" => id.best_move = iter.completed.mv

(* the deadline cut the last iteration short after an earlier one had      *)
(* completed, and the cut iteration's move is another than the returned one*)
C6_Witness ==
  /\ pc = "done"
  /\ iter.cut
  /\ iter.completed.depth >= 1
  /\ info.tt.depth > iter.completed.depth
  /\ info.tt.best_move # NoMove
  /\ info.tt.best_move # id.best_move

(* C12: when generate_legal_moves returns no move for the root position,   *)
(* find_best_move returns None.                                            *)
C12_EmptyRootReturnsNone ==
  (pc = "done" /\ generate_legal_moves(board) = <<>>) => id.best_move = NoMove

(* a search of a root without moves has returned, an iteration of it       *)
(* having run to completion                                                *)
C12_Witness ==
  /\ pc = "done"
  /\ generate_legal_moves(board) = <<>>
  /\ iter.completed.depth >= 1
  /\ info.tt.node_type = "Exact"

(* C16: a TT entry the search writes with bound Exact has a score strictly *)
(* between the alpha and beta of the node that stored it; here for the     *)
(* entries negamax_root writes.                                            *)
C16_ExactEntryInsideWindow ==
  [][RootReturn =>
       (info'.tt.node_type = "Exact"
          => (id.alpha < info'.tt.score /\ info'.tt.score < id.beta))]_vars

(* C17: for depth > 4 the score and move accepted for the depth come from  *)
(* a search of the root's moves whose (alpha, beta) window strictly        *)
(* contains the score: after a fail-low or fail-high the moves are         *)
(* searched again under the widened window.                                *)
C17_AcceptedScoreInsideSearchedWindow ==
  [][(Record /\ id.depth > 4 /\ ~should_stop(info'.elapsed))
       => (/\ iter.searched.alpha < id.current_result.score
           /\ id.current_result.score < iter.searched.beta)]_vars

(***************************************************************************)
(* The move generator, piece by piece: the destinations emitted for a      *)
(* piece of the side to move against the rule of the piece.                *)
(***************************************************************************)
SideToMove(b) == IF b.red_to_move THEN "Red" ELSE "Black"

PiecesToMove(b, kind) ==
  {p \in Pos : At(b, p) = Some(SideToMove(b), kind)}

Emitted(b, p) ==
  LET moves == generate_legal_moves(b)
  IN  {moves[i].to : i \in {j \in 1..Len(moves) : moves[j].from = p}}

Friendly(b, p, q) == At(b, q) # NoPiece /\ At(b, q)[1] = At(b, p)[1]

Enemy(b, p, q) == At(b, q) # NoPiece /\ At(b, q)[1] # At(b, p)[1]

Least(a, b) == IF a < b THEN a ELSE b

Greatest(a, b) == IF a < b THEN b ELSE a

SameLine(p, q) == p # q /\ (p[1] = q[1] \/ p[2] = q[2])

(* the squares strictly between two squares of one rank or file *)
Between(p, q) ==
  IF p[1] = q[1]
  THEN {<<p[1], f>> : f \in (Least(p[2], q[2]) + 1)..(Greatest(p[2], q[2]) - 1)}
  ELSE {<<r, p[2]>> : r \in (Least(p[1], q[1]) + 1)..(Greatest(p[1], q[1]) - 1)}

PiecesBetween(b, p, q) ==
  Cardinality({s \in Between(p, q) : At(b, s) # NoPiece})

CannonCapture(b, p, q) ==
  SameLine(p, q) /\ Enemy(b, p, q) /\ PiecesBetween(b, p, q) = 1

CannonQuiet(b, p, q) ==
  SameLine(p, q) /\ At(b, q) = NoPiece /\ PiecesBetween(b, p, q) = 0

(* C18: a Cannon of the side to move is given a move to a square exactly   *)
(* when the square is on its rank or file and either holds an enemy piece  *)
(* with exactly one piece between, or is empty with no piece between.      *)
C18_CannonMovesAndCaptures ==
  \A p \in PiecesToMove(board, "Cannon") :
    Emitted(board, p)
      = {q \in Pos : CannonCapture(board, p, q) \/ CannonQuiet(board, p, q)}

(* a Cannon to move that captures over a screen, meets an enemy piece      *)
(* first on some line, and has a friendly piece and an empty square behind *)
(* a screen                                                                *)
C18_Witness ==
  \E p \in PiecesToMove(board, "Cannon") :
    /\ \E q \in Emitted(board, p) : CannonCapture(board, p, q)
    /\ \E q \in Pos : SameLine(p, q) /\ Enemy(board, p, q)
                      /\ PiecesBetween(board, p, q) = 0
    /\ \E q \in Pos : SameLine(p, q) /\ Friendly(board, p, q)
                      /\ PiecesBetween(board, p, q) = 1
    /\ \E q \in Pos : SameLine(p, q) /\ At(board, q) = NoPiece
                      /\ PiecesBetween(board, p, q) = 1

LShaped(p, q) == {Abs(q[1] - p[1]), Abs(q[2] - p[2])} = {1, 2}

(* the square next to the Horse in the direction of its two-step component *)
HorseLeg(p, q) ==
  IF Abs(q[1] - p[1]) = 2
  THEN <<(p[1] + q[1]) \div 2, p[2]>>
  ELSE <<p[1], (p[2] + q[2]) \div 2>>

HorseMove(b, p, q) ==
  LShaped(p, q) /\ At(b, HorseLeg(p, q)) = NoPiece /\ ~Friendly(b, p, q)

(* C19: a Horse of the side to move is given a move to a square exactly    *)
(* when the square is an L-shaped step away on the board, the leg square   *)
(* is empty and the square holds no friendly piece.                        *)
C19_HorseMovesIffLegFree ==
  \A p \in PiecesToMove(board, "Horse") :
    Emitted(board, p) = {q \in Pos : HorseMove(board, p, q)}

(* the Horse to move on (0, 1) with a piece on (1, 1) and a free leg to    *)
(* the side                                                                *)
C19_Witness ==
  /\ <<0, 1>> \in PiecesToMove(board, "Horse")
  /\ At(board, <<1, 1>>) # NoPiece
  /\ <<2, 0>> \notin Emitted(board, <<0, 1>>)
  /\ <<2, 2>> \notin Emitted(board, <<0, 1>>)
  /\ <<1, 3>> \in Emitted(board, <<0, 1>>)

Forward(color) == IF color = "Red" THEN -1 ELSE 1

CrossedRiver(color, rank) == IF color = "Red" THEN rank <= 4 ELSE rank >= 5

SoldierStep(b, p, q) ==
  LET color == At(b, p)[1]
  IN  /\ \/ q = <<p[1] + Forward(color), p[2]>>
         \/ /\ CrossedRiver(color, p[1])
            /\ q[1] = p[1]
            /\ Abs(q[2] - p[2]) = 1
      /\ ~Friendly(b, p, q)

(* C20: a Soldier of the side to move is given exactly the step forward    *)
(* and, once across the river, the steps left and right, each to a square  *)
(* on the board that holds no friendly piece.                              *)
C20_SoldierSteps ==
  \A p \in PiecesToMove(board, "Soldier") :
    Emitted(board, p) = {q \in Pos : SoldierStep(board, p, q)}

(* Red to move with a Soldier on (4, 4) that has its three steps and a     *)
(* Soldier on rank 5 that has only the step forward                        *)
C20_Witness ==
  /\ <<4, 4>> \in PiecesToMove(board, "Soldier")
  /\ Emitted(board, <<4, 4>>) = {<<3, 4>>, <<4, 3>>, <<4, 5>>}
  /\ \E f \in 0..(NumFiles - 1) :
       /\ <<5, f>> \in PiecesToMove(board, "Soldier")
       /\ Emitted(board, <<5, f>>) = {<<4, f>>}

(***************************************************************************)
(* The search on a forced mate.                                            *)
(***************************************************************************)

(* C30: every move of generate_legal_moves(board) has its squares on the   *)
(* board, a piece of the side to move on its source and no piece of that   *)
(* side on its destination, and make_move on a clone of the board returns  *)
(* true for it.                                                            *)
C30_GeneratedMovesAreAccepted ==
  \A moves \in {generate_legal_moves(board)} :
    \A i \in 1..Len(moves) :
      /\ moves[i].from \in Pos
      /\ moves[i].to \in Pos
      /\ At(board, moves[i].from) # NoPiece
      /\ At(board, moves[i].from)[1] = SideToMove(board)
      /\ ~Friendly(board, moves[i].from, moves[i].to)
      /\ make_move(board, moves[i].from, moves[i].to).ok

(* a node below the root where a piece of the side to move stands next to  *)
(* one of its own, a capture is generated, and the move that led here was  *)
(* accepted                                                                *)
C30_Witness ==
  /\ nmoves > 0
  /\ call.made /\ call.ok
  /\ \E p \in Pos : \E q \in Pos :
       /\ At(board, p) # NoPiece /\ At(board, p)[1] = SideToMove(board)
       /\ Abs(p[1] - q[1]) + Abs(p[2] - q[2]) = 1
       /\ Friendly(board, p, q)
  /\ \E moves \in {generate_legal_moves(board)} :
       \E i \in 1..Len(moves) : At(board, moves[i].to) # NoPiece

(* a generated move of the side to move lands on the General of `color` *)
GeneralCapturable(b, color) ==
  LET moves == generate_legal_moves(b)
  IN  \E i \in 1..Len(moves) : At(b, moves[i].to) = Some(color, "General")

(* the side to move is in check, for is_in_check and for the generator     *)
(* alike, and each of its moves leaves its General capturable              *)
Checkmated(b) ==
  LET color == SideToMove(b)
      replies == generate_legal_moves(b)
  IN  /\ is_in_check(b, color)
      /\ GeneralCapturable([b EXCEPT !.red_to_move = ~@], color)
      /\ \A i \in 1..Len(replies) :
           GeneralCapturable(
             make_move(b, replies[i].from, replies[i].to).board, color)

MatingMoves(b) ==
  LET moves == generate_legal_moves(b)
  IN  {moves[i] : i \in {j \in 1..Len(moves) :
         Checkmated(make_move(b, moves[j].from, moves[j].to).board)}}

(* C13: when the root has a move that checkmates and the search has        *)
(* completed depth 2, the root's loop scored every such move at            *)
(* MATE_SCORE - MAX_DEPTH or more and find_best_move returns one of them.  *)
C13_MateIsScoredAndReturned ==
  (pc = "done" /\ iter.completed.depth >= 2 /\ MatingMoves(board) # {})
    => /\ \A mv \in MatingMoves(board) :
            /\ mv \in DOMAIN iter.scores
            /\ iter.scores[mv] >= MATE_SCORE - MAX_DEPTH
       /\ id.best_move \in MatingMoves(board)

(***************************************************************************)
(* Properties of move ordering                                             *)
(***************************************************************************)

(* the captures among the generated moves of a position *)
Captures(b) ==
  {mv \in {generate_legal_moves(b)[i] : i \in 1..Len(generate_legal_moves(b))} :
     is_capture(b, mv)}

(* the SEE value of the piece on a square *)
SeeValue(b, p) == SEE_PIECE_VALUES[get_piece_value_for_see(At(b, p)[2]) + 1]

(* the MVV-LVA term sort_moves adds for a capture: with empty tables and   *)
(* no TT move the score of a capture is this term plus see                 *)
MvvLvaTerm(b, mv) == move_score(b, mv, SearchInfo_new, 0, NoMove) - see(b, mv)

SameKind(b, p, q) ==
  get_piece_value_for_see(At(b, p)[2]) = get_piece_value_for_see(At(b, q)[2])

(* C22: of two captures sort_moves scores, with attackers of one kind the  *)
(* one of the more valuable victim has the strictly larger MVV-LVA term,   *)
(* and with victims of one kind the one of the less valuable attacker has  *)
(* the strictly larger MVV-LVA term.                                       *)
C22_MvvLvaPrefersVictimThenAttacker ==
  \A caps \in {Captures(board)} :
    \A m1 \in caps, m2 \in caps :
      /\ (SameKind(board, m1.from, m2.from)
            /\ SeeValue(board, m1.to) > SeeValue(board, m2.to))
           => MvvLvaTerm(board, m1) > MvvLvaTerm(board, m2)
      /\ (SameKind(board, m1.to, m2.to)
            /\ SeeValue(board, m1.from) < SeeValue(board, m2.from))
           => MvvLvaTerm(board, m1) > MvvLvaTerm(board, m2)

(* C23: see of a capture is the victim's value when the attacker is worth  *)
(* no more than the victim; when the attacker is worth more, see is        *)
(* strictly less than the victim's value and, for one victim value, does   *)
(* not grow with the attacker's value.                                     *)
C23_SeeSubtractsTheExcess ==
  \A caps \in {Captures(board)} :
    /\ \A mv \in caps :
         IF SeeValue(board, mv.from) <= SeeValue(board, mv.to)
         THEN see(board, mv) = SeeValue(board, mv.to)
         ELSE see(board, mv) < SeeValue(board, mv.to)
    /\ \A m1 \in caps, m2 \in caps :
         (/\ SeeValue(board, m1.to) = SeeValue(board, m2.to)
          /\ SeeValue(board, m1.to) < SeeValue(board, m1.from)
          /\ SeeValue(board, m1.from) < SeeValue(board, m2.from))
           => see(board, m1) >= see(board, m2)

(* the moves update_killer_move was called with for a ply, latest first *)
LatestFirst(ply) ==
  [k \in 1..Len(iter.reported[ply]) |->
     iter.reported[ply][Len(iter.reported[ply]) + 1 - k]]

(* C21: whatever the killer slots and the history table hold, a TT move    *)
(* that is in the move list is the first move of the list sort_moves       *)
(* leaves.                                                                 *)
C21_TtMoveIsSortedFirst ==
  pc = "loop" =>
    \A moves \in {generate_legal_moves(board)} :
      \A ply \in OrderPlies, i \in 1..Len(moves) :
        sort_moves(board, moves, info, ply, moves[i])[1] = moves[i]

(* C24: a turn of negamax's loop in which a quiet move brings alpha to     *)
(* beta or above at remaining depth d adds d*d to the move's history       *)
(* entry when alpha is raised and exactly 2*d*d more at the cutoff.        *)
C24_CutoffAddsTwiceDepthSquared ==
  [][(pc = "loop" /\ pc' = "loop" /\ iter'.turns = iter.turns + 1
        /\ rt'.cutoff /\ ~rt'.capture)
       => get_history_score(info', rt'.mv)
            = get_history_score(info, rt'.mv)
              + rt'.depth * rt'.depth + 2 * rt'.depth * rt'.depth]_vars

(* C27: for each ply, slot 0 of the killers holds the move of the latest   *)
(* update_killer_move call and slot 1 the latest reported move that        *)
(* differs from it, empty if there is none; the slots are empty before     *)
(* the first call and never hold the same move.                            *)
C27_KillerSlotsHoldLatestTwo ==
  pc = "loop" =>
    \A ply \in OrderPlies :
      \A slots \in {killers_at(info, ply)}, latest \in {LatestFirst(ply)} :
        /\ slots[1] = (IF latest = <<>> THEN NoMove ELSE latest[1])
        /\ \A others \in {SelectSeq(latest, LAMBDA mv : mv # slots[1])} :
             slots[2] = (IF others = <<>> THEN NoMove ELSE others[1])
        /\ slots[1] # NoMove => slots[1] # slots[2]

(* three calls for one ply: a move, another, and the first again *)
C27_Witness ==
  /\ pc = "loop"
  /\ \E ply \in OrderPlies :
       /\ Len(iter.reported[ply]) >= 3
       /\ \E k \in 1..(Len(iter.reported[ply]) - 1) :
            iter.reported[ply][k] = iter.reported[ply][k + 1]
       /\ \E j \in 1..Len(iter.reported[ply]), k \in 1..Len(iter.reported[ply]) :
            /\ j + 1 < k
            /\ iter.reported[ply][j] = iter.reported[ply][k]
            /\ iter.reported[ply][j + 1] # iter.reported[ply][j]
       /\ killers_at(info, ply)[2] # NoMove

(***************************************************************************)
(* Properties of the value find_best_move returns                          *)
(***************************************************************************)

(* C29: when the iteration of depth 1 has completed on a root with a       *)
(* generated move, find_best_move returns Some(move), and the move is one  *)
(* of generate_legal_moves(root); None is returned only for a root         *)
(* without moves or when no iteration completed.                           *)
C29_CompletedSearchReturnsGeneratedMove ==
  (pc = "done" /\ iter.completed.depth >= 1)
    => \A moves \in {generate_legal_moves(board)} :
         moves # <<>> =>
           /\ id.best_move # NoMove
           /\ \E i \in 1..Len(moves) : moves[i] = id.best_move

(***************************************************************************)
(* Properties of the recursion of negamax                                  *)
(***************************************************************************)

(* C28: without the deadline, negamax is entered with ply below MAX_DEPTH  *)
(* only, and killer_moves is never indexed at MAX_DEPTH or beyond: the     *)
(* remaining depth falls along every recursion path, the in-check          *)
(* extension included.                                                     *)
C28_PlyStaysBelowMaxDepth ==
  /\ pc = "negamax" => rt.ply < MAX_DEPTH
  /\ pc # "panic"

====
